---- MODULE Spec2Model ----
(***************************************************************************)
(* PaletteAI: the Style Profile library of App.tsx (saved list, persisted  *)
(* blob, in-flight analyses of StyleUploader.tsx), the version history of  *)
(* StyleEditor.tsx, and the analyzeStyle pipeline of fluxService.ts.       *)
(***************************************************************************)
EXTENDS Integers, Sequences, FiniteSets, TLC

\* ------------------------------------------------------------------ bounds
\* The library session (SpecApp): analyses started (each one that is delivered
\* draws one crypto.randomUUID()), highest profile version.
MaxProfiles == 2
MaxAppVersion == 2
\* The session with overlapping analyses (SpecRace): analyses started.
RaceProfiles == 3
\* The editor session (SpecEditor): highest profile version.
MaxVersion == 4
\* Writes to localStorage that fail in one session.
MaxWriteFailures == 1

\* ------------------------------------------------------------ plain values
\* `null` of activeProfile (App.tsx:10); a record, so that it compares with profiles.
null == [null |-> TRUE]
\* An optional field (embedding?, reasoning?): undefined, or a value.
undefined == <<>>
Some(x) == <<x>>

VARIABLES
  savedProfiles,    \* App.tsx:16  useState<StyleProfile[]>
  persisted,        \* localStorage['palette_ai_profiles'], null when never written
  activeProfile,    \* App.tsx:10
  viewMode,         \* App.tsx:17
  pending,          \* analyses started by handleAnalyze and not yet delivered
  isAnalyzing,      \* StyleUploader.tsx:13, of the mounted uploader
  nextId,           \* number of ids crypto.randomUUID() has handed out
  clock,            \* what Date.now() returns
  deleted,          \* ids deleteProfile has removed (history, read by no handler)
  writeFailures,    \* localStorage.setItem calls that threw so far
  lastCall,         \* how the last handler ended: alert shown, exception escaped
  run,              \* the call of analyzeStyle under study (fluxService.ts:340-393)
  quantizer,        \* the call of extractDominantPalette under study
  heuristic,        \* the call of inferMoodKeywords under study
  fusion,           \* the call of performReasoning under study
  gateway,          \* the call of generateFromGraph under study
  proxy,            \* the forwarding proxy and the request it serves
  generator,        \* the Generator panel and its workflow runs (ApiKeyModal.tsx)
  consultant        \* the voice consultant (VoiceConsultant.tsx)

appVars == <<savedProfiles, persisted, activeProfile, viewMode, pending,
             isAnalyzing, nextId, clock, deleted, writeFailures, lastCall>>

\* The service calls and the panels studied on their own.
svcVars == <<quantizer, heuristic, fusion, gateway, proxy, generator, consultant>>

vars == <<appVars, run, svcVars>>

\* --------------------------------------------------------------- sequences
RemoveAt(s, i) == SubSeq(s, 1, i - 1) \o SubSeq(s, i + 1, Len(s))

RECURSIVE SeqMap(_, _)
SeqMap(F(_), s) == IF s = <<>> THEN <<>> ELSE <<F(Head(s))>> \o SeqMap(F, Tail(s))

RECURSIVE SeqFilter(_, _)
SeqFilter(P(_), s) ==
  IF s = <<>> THEN <<>>
  ELSE (IF P(Head(s)) THEN <<Head(s)>> ELSE <<>>) \o SeqFilter(P, Tail(s))

Range(s) == {s[i] : i \in DOMAIN s}

Ids(profiles) == {profiles[i].id : i \in DOMAIN profiles}


\* ------------------------------------------------- types.ts (StyleProfile)
DataKeys == {"name", "description", "visualTechnique", "palette", "moods",
             "referenceImages", "embedding", "reasoning"}

\* The eight fields a snapshot's `data` holds, read off a profile
\* (StyleEditor.tsx:27-36 and 60-69 list them one by one).
DataOf(p) ==
  [name |-> p.name, description |-> p.description,
   visualTechnique |-> p.visualTechnique, palette |-> p.palette,
   moods |-> p.moods, referenceImages |-> p.referenceImages,
   embedding |-> p.embedding, reasoning |-> p.reasoning]

\* ------------------------------------------------------- StyleEditor.tsx
\* handleSave as it would be with the snapshot built from the edit state (name,
\* description, technique, palette, moods) instead of the props.
handleSaveSnapshotOfForm(styleProfile, form, now) ==
  LET snapshot == [version |-> styleProfile.version,
                   timestamp |-> now,
                   changeLog |-> <<"Updated parameters manually">>,
                   data |-> [name |-> form.name,
                             description |-> form.description,
                             visualTechnique |-> form.technique,
                             palette |-> form.palette,
                             moods |-> form.moods,
                             referenceImages |-> styleProfile.referenceImages,
                             embedding |-> styleProfile.embedding,
                             reasoning |-> styleProfile.reasoning]]
  IN [styleProfile EXCEPT
        !.version = styleProfile.version + 1,
        !.history = <<snapshot>> \o styleProfile.history,
        !.name = form.name,
        !.description = form.description,
        !.visualTechnique = form.technique,
        !.palette = form.palette,
        !.moods = form.moods]

\* handleSave: snapshot of the profile in the props, then the edit state on top.
handleSave(styleProfile, form, now) ==
  LET snapshot == [version |-> styleProfile.version,
                   timestamp |-> now,
                   changeLog |-> <<"Updated parameters manually">>,
                   data |-> DataOf(styleProfile)]
  IN [styleProfile EXCEPT
        !.version = styleProfile.version + 1,
        !.history = <<snapshot>> \o styleProfile.history,
        !.name = form.name,
        !.description = form.description,
        !.visualTechnique = form.technique,
        !.palette = form.palette,
        !.moods = form.moods]

\* handleRevert as it would be with the version of the snapshot taken back
\* along with its data.
handleRevertTakesVersion(styleProfile, snapshot, now) ==
  LET currentSnapshot == [version |-> styleProfile.version,
                          timestamp |-> now,
                          changeLog |-> <<"Reverted to v", snapshot.version>>,
                          data |-> DataOf(styleProfile)]
      base == [styleProfile EXCEPT
                 !.version = snapshot.version,
                 !.history = <<currentSnapshot>> \o styleProfile.history]
  IN [k \in DOMAIN base |->
        IF k \in DOMAIN snapshot.data THEN snapshot.data[k] ELSE base[k]]

\* handleRevert as it would be with `...snapshot.data` spread first and the
\* profile on top of it.
handleRevertDataFirst(styleProfile, snapshot, now) ==
  LET currentSnapshot == [version |-> styleProfile.version,
                          timestamp |-> now,
                          changeLog |-> <<"Reverted to v", snapshot.version>>,
                          data |-> DataOf(styleProfile)]
  IN [styleProfile EXCEPT
        !.version = styleProfile.version + 1,
        !.history = <<currentSnapshot>> \o styleProfile.history]

\* handleRevert: snapshot of the current state, then `...snapshot.data` on top.
handleRevert(styleProfile, snapshot, now) ==
  LET currentSnapshot == [version |-> styleProfile.version,
                          timestamp |-> now,
                          changeLog |-> <<"Reverted to v", snapshot.version>>,
                          data |-> DataOf(styleProfile)]
      base == [styleProfile EXCEPT
                 !.version = styleProfile.version + 1,
                 !.history = <<currentSnapshot>> \o styleProfile.history]
  IN [k \in DOMAIN base |->
        IF k \in DOMAIN snapshot.data THEN snapshot.data[k] ELSE base[k]]

\* ---------------------------------------------------------------- App.tsx
\* JSON.stringify of the list: a key whose value is undefined is left out.
StringifyData(d) ==
  IF d.embedding = undefined THEN [k \in DOMAIN d \ {"embedding"} |-> d[k]] ELSE d

StringifySnapshot(s) == [s EXCEPT !.data = StringifyData(s.data)]

StringifyProfile(p) ==
  LET q == [p EXCEPT !.history = SeqMap(StringifySnapshot, p.history)]
  IN IF p.embedding = undefined THEN [k \in DOMAIN q \ {"embedding"} |-> q[k]] ELSE q

JsonStringify(profiles) == SeqMap(StringifyProfile, profiles)

\* saveProfilesToStorage as it would be without its try/catch: the exception of
\* setItem leaves the helper, nothing is reported.
saveProfilesToStorageNoCatch(store, profiles, writeOk) ==
  IF writeOk
  THEN [store |-> Some(JsonStringify(profiles)), alerted |-> FALSE, threw |-> FALSE]
  ELSE [store |-> store, alerted |-> FALSE, threw |-> TRUE]

\* saveProfilesToStorage: setItem inside try/catch; `writeOk` is whether
\* localStorage.setItem accepts the blob. Yields the store afterwards, whether
\* the alert was shown, and whether an exception left the helper.
saveProfilesToStorage(store, profiles, writeOk) ==
  IF writeOk
  THEN [store |-> Some(JsonStringify(profiles)), alerted |-> FALSE, threw |-> FALSE]
  ELSE [store |-> store, alerted |-> TRUE, threw |-> FALSE]

\* The profile handleStyleAnalyzed builds (App.tsx:46-59).
NewProfile(analysis, images, id, now) ==
  [id |-> id,
   name |-> analysis.suggestedName,
   description |-> analysis.artisticStyle,
   visualTechnique |-> analysis.visualTechnique,
   palette |-> analysis.colorPalette,
   moods |-> analysis.moodKeywords,
   referenceImages |-> images,
   createdAt |-> now,
   embedding |-> analysis.embedding,
   reasoning |-> analysis.reasoning,
   version |-> 1,
   history |-> <<>>]

\* handleStyleAnalyzed's list: the new profile in front of the savedProfiles
\* of the render the handler belongs to.
handleStyleAnalyzed(closureSaved, newProfile) == <<newProfile>> \o closureSaved

\* handleProfileUpdate's list: map, replacing the entry with the same id.
handleProfileUpdate(saved, updatedProfile) ==
  LET Swap(p) == IF p.id = updatedProfile.id THEN updatedProfile ELSE p
  IN SeqMap(Swap, saved)

\* deleteProfile's list: filter on id.
deleteProfile(saved, id) ==
  LET Keep(p) == p.id # id IN SeqFilter(Keep, saved)


\* ------------------------------------------------- fluxService.ts: values
\* A value JSON.parse can return, tagged by its type; `null` is JSON's null and
\* `undefined` is what reading a missing key gives.
JString(str) == [str |-> str]
JNumber(num) == [num |-> num]
JArray(arr) == [arr |-> arr]
JObject(obj) == [obj |-> obj]

IsString(v) == "str" \in DOMAIN v
IsNumber(v) == "num" \in DOMAIN v
IsArray(v) == "arr" \in DOMAIN v
IsObject(v) == "obj" \in DOMAIN v

\* parsed?.key
Get(parsed, key) ==
  IF IsObject(parsed) /\ key \in DOMAIN parsed.obj THEN parsed.obj[key] ELSE undefined

\* String.prototype.trim, on the white space the sample strings use.
WhiteSpace == {" ", "\t", "\n"}

RECURSIVE trimStart(_)
trimStart(str) ==
  IF str # "" /\ Head(str) \in WhiteSpace THEN trimStart(Tail(str)) ELSE str

RECURSIVE trimEnd(_)
trimEnd(str) ==
  IF str # "" /\ SubSeq(str, Len(str), Len(str)) \in WhiteSpace
  THEN trimEnd(SubSeq(str, 1, Len(str) - 1)) ELSE str

trim(str) == trimEnd(trimStart(str))

\* String.prototype.toLowerCase, on the letters a hex string can hold.
LowerOf(c) ==
  CASE c = "A" -> "a" [] c = "B" -> "b" [] c = "C" -> "c"
    [] c = "D" -> "d" [] c = "E" -> "e" [] c = "F" -> "f"
    [] c = "X" -> "x" [] OTHER -> c

RECURSIVE toLowerCase(_)
toLowerCase(str) ==
  IF str = "" THEN "" ELSE LowerOf(Head(str)) \o toLowerCase(Tail(str))

\* [0-9a-fA-F]
HexDigit == {"0", "1", "2", "3", "4", "5", "6", "7", "8", "9",
             "a", "b", "c", "d", "e", "f", "A", "B", "C", "D", "E", "F"}

StartsWith(str, prefix) ==
  Len(str) >= Len(prefix) /\ SubSeq(str, 1, Len(prefix)) = prefix

\* str.replace(/^0x/i, "") and str.replace(/^#/, "")
Strip0x(str) ==
  IF Len(str) >= 2 /\ toLowerCase(SubSeq(str, 1, 2)) = "0x"
  THEN SubSeq(str, 3, Len(str)) ELSE str
StripHash(str) == IF StartsWith(str, "#") THEN Tail(str) ELSE str

\* /^[0-9a-fA-F]{6}$/.test(h)
IsSixHex(h) == Len(h) = 6 /\ \A i \in 1..6 : SubSeq(h, i, i) \in HexDigit

\* normalizeHex as it would be returning the digits as they came.
normalizeHexKeepsCase(hex) ==
  IF ~IsString(hex) THEN undefined
  ELSE LET h == StripHash(Strip0x(trim(hex.str)))
       IN IF ~IsSixHex(h) THEN undefined ELSE Some("#" \o h)

\* normalizeHex (fluxService.ts:157-162); its `null` is `undefined` here, the
\* string it returns is Some(string).
normalizeHex(hex) ==
  IF ~IsString(hex) THEN undefined
  ELSE LET h == StripHash(Strip0x(trim(hex.str)))
       IN IF ~IsSixHex(h) THEN undefined ELSE Some("#" \o toLowerCase(h))

\* array.map(normalizeHex).filter(Boolean)
RECURSIVE NormalizedColors(_)
NormalizedColors(arr) ==
  IF arr = <<>> THEN <<>>
  ELSE normalizeHex(Head(arr)) \o NormalizedColors(Tail(arr))

\* array.filter(x => typeof x === "string")
RECURSIVE StringsOf(_)
StringsOf(arr) ==
  IF arr = <<>> THEN <<>>
  ELSE (IF IsString(Head(arr)) THEN <<Head(arr).str>> ELSE <<>>) \o StringsOf(Tail(arr))

\* array.filter(x => typeof x === "number")
RECURSIVE NumbersOf(_)
NumbersOf(arr) ==
  IF arr = <<>> THEN <<>>
  ELSE (IF IsNumber(Head(arr)) THEN <<Head(arr).num>> ELSE <<>>) \o NumbersOf(Tail(arr))

\* array.slice(0, n)
Slice0(arr, n) == SubSeq(arr, 1, IF Len(arr) < n THEN Len(arr) ELSE n)

\* slice(0, 6) of extractStyleWithVlm (fluxService.ts:215)
MoodKeywordLimit == 6

\* ---------------------------------------------- fluxService.ts: the calls
\* What fetch() gives: it rejects, or resolves with a status outside 200..299,
\* or resolves with a body; `data` is what res.json() returns, Unparseable when
\* res.json() throws.
Rejects == [fetch |-> "rejects"]
NotOk(status) == [fetch |-> "resolves", ok |-> FALSE, status |-> status]
Ok(data) == [fetch |-> "resolves", ok |-> TRUE, data |-> data]
Unparseable == [invalid |-> TRUE, braces |-> FALSE]
UnparseableBraces == [invalid |-> TRUE, braces |-> TRUE]
IsValidJson(v) == "invalid" \notin DOMAIN v

\* The text of a chat completion: a JSON body (or something JSON.parse rejects),
\* possibly inside a ```json fence, possibly with prose around it; Blank is a text
\* that trims to "". Array bodies of the samples hold no objects.
Text(fenced, prose, body) == [fenced |-> fenced, prose |-> prose, body |-> body]
Blank == [blank |-> TRUE]
IsBlank(text) == "blank" \in DOMAIN text

\* value?.[i]
Index(v, i) == IF IsArray(v) /\ i < Len(v.arr) THEN v.arr[i + 1] ELSE undefined

\* safeJsonParse (fluxService.ts:68-83): the fences are removed and the rest is
\* parsed; when that throws, the span from the first "{" to the last "}" is
\* parsed; when there is none, or it throws too, the result is {}.
safeJsonParse(text) ==
  IF IsValidJson(text.body) /\ ~text.prose THEN text.body
  ELSE IF IsValidJson(text.body) /\ IsObject(text.body) THEN text.body
  ELSE JObject(<<>>)

\* The six keys of the style description.
StyleKeys == {"artisticStyle", "visualTechnique", "colorPalette",
              "moodKeywords", "suggestedName", "reasoning"}

\* `vlm = {}`
EmptyVlm == [k \in StyleKeys |-> undefined]

\* typeof parsed?.key === "string" ? parsed.key : undefined
StringOrUndefined(parsed, key) ==
  IF IsString(Get(parsed, key)) THEN Some(Get(parsed, key).str) ELSE undefined

\* extractStyleWithVlm (fluxService.ts:164-226) on the reply of its fetch.
extractStyleWithVlm(reply) ==
  IF reply.fetch = "rejects" \/ ~reply.ok \/ ~IsValidJson(reply.data)
  THEN [threw |-> TRUE, value |-> EmptyVlm]
  ELSE
    LET content == Get(Get(Index(Get(reply.data, "choices"), 0), "message"), "content")
    IN IF ~IsString(content) \/ IsBlank(content.str)
       THEN [threw |-> TRUE, value |-> EmptyVlm]
       ELSE
         LET parsed == safeJsonParse(content.str)
             colorPalette ==
               IF IsArray(Get(parsed, "colorPalette"))
               THEN Some(NormalizedColors(Get(parsed, "colorPalette").arr))
               ELSE undefined
             moodKeywords ==
               IF IsArray(Get(parsed, "moodKeywords"))
               THEN Some(Slice0(StringsOf(Get(parsed, "moodKeywords").arr),
                                MoodKeywordLimit))
               ELSE undefined
         IN [threw |-> FALSE,
             value |-> [artisticStyle |-> StringOrUndefined(parsed, "artisticStyle"),
                        visualTechnique |-> StringOrUndefined(parsed, "visualTechnique"),
                        colorPalette |-> colorPalette,
                        moodKeywords |-> moodKeywords,
                        suggestedName |-> StringOrUndefined(parsed, "suggestedName"),
                        reasoning |-> StringOrUndefined(parsed, "reasoning")]]

\* extractImageEmbedding (fluxService.ts:228-250) on the reply of its fetch.
extractImageEmbedding(reply) ==
  IF reply.fetch = "rejects" \/ ~reply.ok \/ ~IsValidJson(reply.data)
  THEN [threw |-> TRUE, value |-> undefined]
  ELSE
    LET data == reply.data
        vector == IF IsArray(data) /\ IsArray(Index(data, 0)) THEN Index(data, 0) ELSE data
    IN [threw |-> FALSE,
        value |-> IF ~IsArray(vector) THEN undefined ELSE Some(NumbersOf(vector.arr))]

\* parseInt(h, 16) on a string of hex digits (what rgbToHex writes).
HexValue(c) ==
  CASE c = "0" -> 0 [] c = "1" -> 1 [] c = "2" -> 2 [] c = "3" -> 3
    [] c = "4" -> 4 [] c = "5" -> 5 [] c = "6" -> 6 [] c = "7" -> 7
    [] c = "8" -> 8 [] c = "9" -> 9
    [] toLowerCase(c) = "a" -> 10 [] toLowerCase(c) = "b" -> 11
    [] toLowerCase(c) = "c" -> 12 [] toLowerCase(c) = "d" -> 13
    [] toLowerCase(c) = "e" -> 14 [] toLowerCase(c) = "f" -> 15

RECURSIVE parseInt16(_)
parseInt16(h) ==
  IF h = "" THEN 0
  ELSE 16 * parseInt16(SubSeq(h, 1, Len(h) - 1)) + HexValue(SubSeq(h, Len(h), Len(h)))

\* clamp (fluxService.ts:45).
MathMax(a, b) == IF a >= b THEN a ELSE b
MathMin(a, b) == IF a <= b THEN a ELSE b
clamp(n, min, max) == MathMax(min, MathMin(max, n))

\* hex.replace("#", ""): the first "#" of the string, wherever it stands.
RECURSIVE RemoveFirstHash(_)
RemoveFirstHash(str) ==
  IF str = "" THEN ""
  ELSE IF Head(str) = "#" THEN Tail(str)
  ELSE Head(str) \o RemoveFirstHash(Tail(str))

\* str.slice(from, to) of a string.
StringSlice(str, from, to) == SubSeq(str, from + 1, MathMin(to, Len(str)))

\* The longest prefix of hex digits.
RECURSIVE HexPrefix(_)
HexPrefix(str) ==
  IF str # "" /\ Head(str) \in HexDigit THEN Head(str) \o HexPrefix(Tail(str)) ELSE ""

\* parseInt(str, 16): white space, a sign and "0x" are skipped, the longest
\* prefix of hex digits is read; NaN when there is none.
Unsigned(str) ==
  LET t == trimStart(str) IN IF t # "" /\ Head(t) \in {"+", "-"} THEN Tail(t) ELSE t
IsNegative(str) == LET t == trimStart(str) IN t # "" /\ Head(t) = "-"
parseIntIsNaN(str) == HexPrefix(Strip0x(Unsigned(str))) = ""
parseIntValue(str) ==
  (IF IsNegative(str) THEN -1 ELSE 1) * parseInt16(HexPrefix(Strip0x(Unsigned(str))))

RECURSIVE SumOf(_)
SumOf(ns) == IF ns = <<>> THEN 0 ELSE Head(ns) + SumOf(Tail(ns))

Max3(a, b, c) == IF a >= b /\ a >= c THEN a ELSE IF b >= c THEN b ELSE c
Min3(a, b, c) == IF a <= b /\ a <= c THEN a ELSE IF b <= c THEN b ELSE c

\* The third tag pushed first: the order of the tags turned round.
MoodTagsReversed(brightnessTag, chromaTag) == <<"stylized", chromaTag, brightnessTag>>

\* The three push calls and slice(0, 3) (fluxService.ts:333-337).
MoodTags(brightnessTag, chromaTag) == <<brightnessTag, chromaTag, "stylized">>

\* inferMoodKeywords (fluxService.ts:308-338). The averages are kept as sums
\* over the palette: brightness < 0.35 is
\* 2126*R + 7152*G + 722*B < 0.35 * 255 * 10000 * n, chroma > 0.35 is
\* max - min > 0.35 * 255 * n. A channel parseInt cannot read makes its average,
\* the brightness and the chroma NaN, and every comparison with NaN is false.
inferMoodKeywords(palette) ==
  IF Len(palette) = 0 THEN <<"balanced", "clean", "modern">>
  ELSE
    LET n == Len(palette)
        Part(i, from) == StringSlice(RemoveFirstHash(palette[i]), from, from + 2)
        nan == \E i \in 1..n, from \in {0, 2, 4} : parseIntIsNaN(Part(i, from))
        Channel(from) == SumOf([i \in 1..n |-> parseIntValue(Part(i, from))])
        r == Channel(0)
        g == Channel(2)
        b == Channel(4)
        brightness == 2126 * r + 7152 * g + 722 * b
        chroma == Max3(r, g, b) - Min3(r, g, b)
    IN IF nan THEN MoodTags("balanced", "muted")
       ELSE MoodTags(IF brightness < 892500 * n THEN "moody"
                     ELSE IF brightness > 1785000 * n THEN "airy" ELSE "balanced",
                     IF chroma * 100 > 8925 * n THEN "vibrant" ELSE "muted")

\* -------------------------------- fluxService.ts: extractDominantPalette
\* Number.prototype.toString(16) of 0..255 and padStart(2, "0").
HexChar(n) == SubSeq("0123456789abcdef", n + 1, n + 1)
toString16(v) == IF v < 16 THEN HexChar(v) ELSE HexChar(v \div 16) \o HexChar(v % 16)
padStart2(str) == IF Len(str) < 2 THEN "0" \o str ELSE str

\* rgbToHex (fluxService.ts:47-50); the channels are integers, Math.round
\* leaves them as they are.
rgbToHex(r, g, b) ==
  "#" \o padStart2(toString16(clamp(r, 0, 255)))
      \o padStart2(toString16(clamp(g, 0, 255)))
      \o padStart2(toString16(clamp(b, 0, 255)))

\* A file of the call: loadImageFromFile rejects, getContext returns null, or
\* getImageData returns the pixels of the downscaled image.
Unreadable == [load |-> "rejects"]
NoContext == [load |-> "ok", ctx |-> FALSE]
ImageData(pixels) == [load |-> "ok", ctx |-> TRUE, data |-> pixels]

\* The alpha under which a pixel is skipped (fluxService.ts:275).
AlphaFloor == 220
\* The pixels from one sample to the next: stride = 4 * 3 bytes (fluxService.ts:272).
PixelStride == 3

\* (rb << 8) | (gb << 4) | bb of a pixel (fluxService.ts:279-282).
KeyOf(px) == (px.r \div 16) * 256 + (px.g \div 16) * 16 + (px.b \div 16)

\* histogram.set(key, (histogram.get(key) || 0) + 1): a Map keeps the order in
\* which its keys were first set.
Bump(histogram, key) ==
  IF \E i \in 1..Len(histogram) : histogram[i].key = key
  THEN [i \in 1..Len(histogram) |->
          IF histogram[i].key = key
          THEN [histogram[i] EXCEPT !.count = @ + 1] ELSE histogram[i]]
  ELSE Append(histogram, [key |-> key, count |-> 1])

\* The loop over the pixel buffer of one image (fluxService.ts:273-284), from
\* pixel i (counted from 0).
RECURSIVE SamplePixels(_, _, _)
SamplePixels(histogram, data, i) ==
  IF i >= Len(data) THEN histogram
  ELSE SamplePixels(IF data[i + 1].a < AlphaFloor THEN histogram
                    ELSE Bump(histogram, KeyOf(data[i + 1])),
                    data, i + PixelStride)

\* The loop over the files (fluxService.ts:256-285): the histogram, or the
\* rejection of loadImageFromFile.
RECURSIVE Histogram(_, _)
Histogram(histogram, files) ==
  IF files = <<>> THEN [threw |-> FALSE, value |-> histogram]
  ELSE IF Head(files).load = "rejects" THEN [threw |-> TRUE]
  ELSE IF ~Head(files).ctx THEN Histogram(histogram, Tail(files))
  ELSE Histogram(SamplePixels(histogram, Head(files).data, 0), Tail(files))

\* The entries in the order of the Map: no sort.
SortByCountLeftOut(entries) == entries

\* Array.prototype.sort((a, b) => b[1] - a[1]) (fluxService.ts:288): by
\* descending count, entries of equal count in the order they had.
RECURSIVE SortByCount(_)
SortByCount(entries) ==
  IF entries = <<>> THEN <<>>
  ELSE
    LET first == CHOOSE i \in 1..Len(entries) :
                   /\ \A j \in 1..Len(entries) : entries[j].count <= entries[i].count
                   /\ \A j \in 1..(i - 1) : entries[j].count < entries[i].count
    IN <<entries[first]>> \o
       SortByCount([j \in 1..(Len(entries) - 1) |->
                      IF j < first THEN entries[j] ELSE entries[j + 1]])

\* The loop over the top entries (fluxService.ts:291-303).
RECURSIVE CollectColors(_, _, _)
CollectColors(colors, top, count) ==
  IF top = <<>> THEN colors
  ELSE
    LET key == Head(top).key
        hex == rgbToHex(((key \div 256) % 16) * 16 + 8,
                        ((key \div 16) % 16) * 16 + 8,
                        (key % 16) * 16 + 8)
        pushed == IF \E i \in 1..Len(colors) : colors[i] = hex
                  THEN colors ELSE Append(colors, hex)
    IN IF Len(pushed) >= count THEN pushed
       ELSE CollectColors(pushed, Tail(top), count)

\* extractDominantPalette (fluxService.ts:252-306).
extractDominantPalette(files, count) ==
  LET histogram == Histogram(<<>>, files)
  IN IF histogram.threw THEN [threw |-> TRUE]
     ELSE [threw |-> FALSE,
           value |-> CollectColors(<<>>,
                       Slice0(SortByCount(histogram.value), MathMax(count * 3, count)),
                       count)]

\* -------------------------------------- fluxService.ts: performReasoning
\* A number of the prompt fusion: NaN, or so many thousandths.
NaN == [nan |-> TRUE]
Milli(n) == [milli |-> n]

\* clamp(intensity, 0, 1) (fluxService.ts:400): Math.min and Math.max of NaN
\* are NaN.
clampIntensity(intensity) ==
  IF intensity = NaN THEN NaN ELSE Milli(clamp(intensity.milli, 0, 1000))

\* The thresholds of performReasoning, in thousandths (fluxService.ts:405, 415).
NegligibleBelow == 150
StrictFrom == 800
BalancedFrom == 400
\* The colours the hint names (fluxService.ts:410).
HintColors == 5

\* a < t and a >= t of a number and a threshold; false for NaN.
Below(a, t) == a # NaN /\ a.milli < t
AtLeast(a, t) == a # NaN /\ a.milli >= t

\* A value as a condition: undefined, null, "" and 0 are false, arrays are true.
Truthy(v) == v # undefined /\ v # null /\ v # JString("") /\ v # JNumber(0)
\* a || b
Or(a, b) == IF Truthy(a) THEN a ELSE b

\* Number to string, of a natural number.
RECURSIVE Decimal(_)
Decimal(n) ==
  IF n < 10 THEN SubSeq("0123456789", n + 1, n + 1)
  ELSE Decimal(n \div 10) \o SubSeq("0123456789", (n % 10) + 1, (n % 10) + 1)

\* String(Math.round(safeIntensity * 100)): halves go up.
RoundedPercent(safeIntensity) ==
  IF safeIntensity = NaN THEN "NaN" ELSE Decimal((safeIntensity.milli + 5) \div 10)

\* array.join(sep), of an array of strings.
RECURSIVE Join(_, _)
Join(arr, sep) ==
  IF arr = <<>> THEN ""
  ELSE IF Len(arr) = 1 THEN arr[1].str
  ELSE arr[1].str \o sep \o Join(Tail(arr), sep)

\* The label with the two thresholds the other way round.
StrengthSwapped(safeIntensity) ==
  IF AtLeast(safeIntensity, BalancedFrom) THEN "strict"
  ELSE IF AtLeast(safeIntensity, StrictFrom) THEN "balanced" ELSE "subtle"

\* strength (fluxService.ts:415).
Strength(safeIntensity) ==
  IF AtLeast(safeIntensity, StrictFrom) THEN "strict"
  ELSE IF AtLeast(safeIntensity, BalancedFrom) THEN "balanced" ELSE "subtle"

\* styleHint (fluxService.ts:407-413).
StyleHint(technique, moods, palette) ==
  Join(SelectSeq(
         << JString(IF technique.str # "" THEN "Technique: " \o technique.str \o "." ELSE ""),
            JString(IF Len(moods.arr) # 0
                    THEN "Mood: " \o Join(moods.arr, ", ") \o "." ELSE ""),
            JString(IF Len(palette.arr) # 0
                    THEN "Palette: " \o Join(Slice0(palette.arr, HintColors), ", ") \o "."
                    ELSE "") >>,
         Truthy), " ")

\* The prompt handed back with its white space trimmed.
UnfusedTrimmed(userPrompt) == trim(userPrompt)

\* return userPrompt (fluxService.ts:405).
Unfused(userPrompt) == userPrompt

\* performReasoning (fluxService.ts:395-418).
performReasoning(userPrompt, styleData, intensity) ==
  LET safeIntensity == clampIntensity(intensity)
      palette == Or(Or(Get(styleData, "palette"), Get(styleData, "colorPalette")), JArray(<<>>))
      moods == Or(Or(Get(styleData, "moods"), Get(styleData, "moodKeywords")), JArray(<<>>))
      technique == Or(Get(styleData, "visualTechnique"), JString(""))
  IN IF Below(safeIntensity, NegligibleBelow) THEN Unfused(userPrompt)
     ELSE trim(userPrompt \o "\n\nStyle guidance (" \o Strength(safeIntensity) \o ", "
               \o RoundedPercent(safeIntensity) \o "%): "
               \o StyleHint(technique, moods, palette))

\* fusePrompt of the compatibility shim (part_000:16-19).
fusePrompt(userPrompt, styleData, intensity) ==
  performReasoning(userPrompt, styleData, intensity)

\* ------------------------------------- fluxService.ts: generateFromGraph
\* getFluxModelId and HF_ENDPOINT (fluxService.ts:4-10): VITE_HF_FLUX_MODEL,
\* or the default model when it is not set or empty.
DEFAULT_FLUX_MODEL_ID == "runwayml/stable-diffusion-v1-5"
getFluxModelId(env) == IF Truthy(env) THEN env.str ELSE DEFAULT_FLUX_MODEL_ID
HF_ENDPOINT(env) == "/api/hf/models/" \o getFluxModelId(env)

\* Math.round(n / d) of natural numbers: halves go up.
MathRound(n, d) == (2 * n + d) \div (2 * d)

\* A base of its own for "4K".
BaseOfFourKApart(resolution) ==
  IF resolution = "1K" THEN 1024 ELSE IF resolution = "2K" THEN 1536 ELSE 2048

\* base (fluxService.ts:32).
BaseOf(resolution) ==
  IF resolution = "1K" THEN 1024 ELSE IF resolution = "2K" THEN 1536 ELSE 1536

\* aspectToSize (fluxService.ts:26-43).
aspectToSize(aspectRatio, resolution) ==
  LET base == BaseOf(resolution)
  IN CASE aspectRatio = "1:1" -> [width |-> base, height |-> base]
       [] aspectRatio = "3:4" -> [width |-> MathRound(base * 3, 4), height |-> base]
       [] aspectRatio = "4:3" -> [width |-> base, height |-> MathRound(base * 3, 4)]
       [] aspectRatio = "16:9" -> [width |-> base, height |-> MathRound(base * 9, 16)]

\* JSON.stringify of a string: quotes, backslashes and line feeds escaped.
RECURSIVE EscapeJson(_)
EscapeJson(str) ==
  IF str = "" THEN ""
  ELSE (CASE Head(str) = "\"" -> "\\\""
          [] Head(str) = "\\" -> "\\\\"
          [] Head(str) = "\n" -> "\\n"
          [] OTHER -> Head(str)) \o EscapeJson(Tail(str))

\* JSON.stringify(payload) (fluxService.ts:455).
StringifyPayload(payload) ==
  "{\"inputs\":\"" \o EscapeJson(payload.inputs)
    \o "\",\"parameters\":{\"width\":" \o Decimal(payload.parameters.width)
    \o ",\"height\":" \o Decimal(payload.parameters.height)
    \o "},\"options\":{\"wait_for_model\":"
    \o (IF payload.options.wait_for_model THEN "true" ELSE "false") \o "}}"

\* The payload and the fetch of generateFromGraph (fluxService.ts:437-456).
ImageRequest(env, fusedPrompt, aspectRatio, resolution) ==
  LET size == aspectToSize(aspectRatio, resolution)
      payload == [inputs |-> fusedPrompt,
                  parameters |-> [width |-> size.width, height |-> size.height],
                  options |-> [wait_for_model |-> TRUE]]
  IN [url |-> HF_ENDPOINT(env), method |-> "POST",
      headers |-> [h \in {"Content-Type", "Accept"} |->
                     IF h = "Accept" THEN "image/png" ELSE "application/json"],
      payload |-> payload,
      body |-> StringifyPayload(payload)]

\* Answers of the image service: the fetch rejects; a status outside 2xx, the
\* text of the body read or not; a blob, the FileReader reading it or not.
Failed(status, statusText, text) ==
  [fetch |-> "resolves", ok |-> FALSE, status |-> status, statusText |-> statusText,
   text |-> text]
Image(type, base64, readable) ==
  [fetch |-> "resolves", ok |-> TRUE, type |-> type, base64 |-> base64,
   readable |-> readable]

\* blobToDataUrl (fluxService.ts:420-427).
blobToDataUrl(blob) ==
  IF blob.readable
  THEN [threw |-> FALSE, value |-> "data:" \o blob.type \o ";base64," \o blob.base64]
  ELSE [threw |-> TRUE, message |-> "Failed to read image result"]

\* generateFromGraph from the answer on (fluxService.ts:458-467).
ImageResult(res) ==
  IF res.fetch = "rejects" THEN [threw |-> TRUE, message |-> "fetch failed"]
  ELSE IF ~res.ok
  THEN LET text == IF res.text = undefined THEN "" ELSE res.text[1]
           hint == IF res.status = 404 \/ res.status = 403
                   THEN "(Check model access on Hugging Face or set VITE_HF_FLUX_MODEL to an accessible model such as black-forest-labs/FLUX.1-dev.)"
                   ELSE ""
       IN [threw |-> TRUE,
           message |-> trim("HF Inference error (" \o Decimal(res.status) \o "): "
                            \o (IF text # "" THEN text ELSE res.statusText) \o " " \o hint)]
  ELSE blobToDataUrl(res)

\* The arguments generateFromGraph (fluxService.ts:429-436) is called with;
\* editImage (part_000:11-14) and generateStyledImage (part_000:21-24) leave
\* the last ones to their defaults, [], "1:1" and "1K".
generateFromGraph(userPrompt, fusedPrompt, referenceImages, inputImages, aspectRatio, resolution) ==
  [userPrompt |-> userPrompt, fusedPrompt |-> fusedPrompt,
   referenceImages |-> referenceImages, inputImages |-> inputImages,
   aspectRatio |-> aspectRatio, resolution |-> resolution]
editImage(base64Images, prompt) ==
  generateFromGraph(prompt, prompt, <<>>, base64Images, "1:1", "1K")
generateStyledImage(prompt, fused, refs, ar) ==
  generateFromGraph(prompt, fused, refs, <<>>, ar, "1K")

\* ------------------------------------------- ApiKeyModal.tsx: Generator
\* The run handleAction starts: after performReasoning it waits for the
\* styled image (ApiKeyModal.tsx:202-212).
NewAction(id) == [id |-> id, pc |-> "generating"]

\* handleAction with a test of isProcessing in front.
handleActionUnlessBusy(g) ==
  IF g.isProcessing \/ trim(g.prompt) = "" THEN g
  ELSE [g EXCEPT !.isProcessing = TRUE,
                 !.started = @ + 1,
                 !.runs = Append(@, NewAction(g.started + 1))]

\* handleAction up to its first await (ApiKeyModal.tsx:184-202): nothing for
\* a blank prompt, else isProcessing is set and the run is under way.
handleAction(g) ==
  IF trim(g.prompt) = "" THEN g
  ELSE [g EXCEPT !.isProcessing = TRUE,
                 !.started = @ + 1,
                 !.runs = Append(@, NewAction(g.started + 1))]

\* The `finally` of handleAction (ApiKeyModal.tsx:253-255), after the alert
\* of the catch when the run failed (:250-252).
Finished(g, i, failed) ==
  [g EXCEPT !.isProcessing = FALSE,
            !.runs = RemoveAt(@, i),
            !.alerts = IF failed THEN @ + 1 ELSE @]

\* handleAction from the answer for the styled image on (ApiKeyModal.tsx:
\* 205-255): the image goes to onImageGenerated, then the raw image is asked
\* for when comparing.
AfterStyledImage(g, i, ok) ==
  IF ~ok THEN Finished(g, i, TRUE)
  ELSE LET d == [g EXCEPT !.generated = Append(@, g.runs[i].id),
                          !.delivered = Append(@, g.runs[i].id)]
       IN IF g.isComparing THEN [d EXCEPT !.runs[i].pc = "comparing"]
          ELSE Finished(d, i, FALSE)

\* handleAction from the answer for the raw image on (ApiKeyModal.tsx:231-255).
AfterRawImage(g, i, ok) == Finished(g, i, ~ok)

\* ------------------------------------------------- VoiceConsultant.tsx
\* The recognizer handleToggle builds: where it stands, and the isActive of
\* the render whose handleToggle built it, which its onend reads.
NoRecognizer == [state |-> "none"]
Recognizer(isActive) == [state |-> "starting", isActive |-> isActive]

\* rec.stop(): a recognizer that is starting or running ends, its end event
\* still to come.
Stopped(rec) ==
  IF rec.state \in {"starting", "running"} THEN [rec EXCEPT !.state = "stopping"] ELSE rec

\* cleanup (VoiceConsultant.tsx:42-52).
cleanup(c) ==
  [c EXCEPT !.rec = IF c.recognitionRef THEN Stopped(c.rec) ELSE c.rec,
            !.recognitionRef = FALSE,
            !.isActive = FALSE,
            !.status = "idle"]

\* askAssistant without the test of isBusyRef.
askAssistantAlways(c, userText) ==
  [c EXCEPT !.isBusy = TRUE,
            !.error = null,
            !.chatHistory = Append(@, [role |-> "user", text |-> userText]),
            !.status = "connecting",
            !.requests = Append(@, userText)]

\* askAssistant up to its await (VoiceConsultant.tsx:65-81).
askAssistant(c, userText) ==
  IF c.isBusy THEN c
  ELSE [c EXCEPT !.isBusy = TRUE,
                 !.error = null,
                 !.chatHistory = Append(@, [role |-> "user", text |-> userText]),
                 !.status = "connecting",
                 !.requests = Append(@, userText)]

\* askAssistant from the answer of generateAssistantText on (VoiceConsultant.tsx:
\* 81-102), for an answer without the IMAGE_PROMPT: marker; `reply` is null
\* when the call rejected.
AfterAssistant(c, reply) ==
  IF reply = null
  THEN [c EXCEPT !.error = JString("HF assistant failed."),
                 !.status = "idle",
                 !.isBusy = FALSE,
                 !.requests = Tail(@)]
  ELSE [c EXCEPT !.chatHistory = Append(@, [role |-> "model", text |-> trim(reply.str)]),
                 !.status = "listening",
                 !.isBusy = FALSE,
                 !.requests = Tail(@)]

\* handleToggle (VoiceConsultant.tsx:131-184); `supported` is whether the
\* browser has SpeechRecognition, `starts` whether rec.start() returns.
handleToggle(c, supported, starts) ==
  LET d == [c EXCEPT !.error = null]
  IN IF c.isActive THEN cleanup(d)
     ELSE IF ~supported
     THEN [d EXCEPT !.error = JString("Speech recognition not supported in this browser.")]
     ELSE IF starts
     THEN [d EXCEPT !.rec = Recognizer(c.isActive), !.recognitionRef = TRUE]
     ELSE [d EXCEPT !.rec = [Recognizer(c.isActive) EXCEPT !.state = "ended"],
                    !.recognitionRef = TRUE,
                    !.error = JString("Failed to start microphone."),
                    !.isActive = FALSE,
                    !.status = "idle"]

\* rec.onstart (VoiceConsultant.tsx:149-152).
onstart(c) ==
  [c EXCEPT !.rec.state = "running", !.isActive = TRUE, !.status = "listening"]

\* rec.onerror (VoiceConsultant.tsx:154-159); the recognizer ends after it.
onerror(c) ==
  [c EXCEPT !.rec.state = "stopping",
            !.error = JString("Microphone or speech recognition error."),
            !.status = "idle",
            !.isActive = FALSE]

\* rec.onresult (VoiceConsultant.tsx:161-167).
onresult(c, transcript) ==
  IF trim(transcript) # "" THEN askAssistant(c, trim(transcript)) ELSE c

\* rec.onend with the isActive of the render at the time of the event.
onendOfCurrentRender(c) ==
  IF c.recognitionRef /\ c.isActive
  THEN [c EXCEPT !.rec.state = "starting"]
  ELSE [c EXCEPT !.rec.state = "ended"]

\* rec.onend (VoiceConsultant.tsx:169-174): the recognizer has ended; it is
\* started again when the ref still holds it and the isActive of its closure
\* is true.
onend(c) ==
  IF c.recognitionRef /\ c.rec.isActive
  THEN [c EXCEPT !.rec.state = "starting"]
  ELSE [c EXCEPT !.rec.state = "ended"]

\* ------------------------------------ the forwarding proxy (part_001, vite.config.ts)
\* hfToken (part_001:11, vite.config.ts:86): the first of the three variables
\* that is set and not empty.
hfTokenOf(env) == Or(Or(env.HF_TOKEN, env.HUGGINGFACE_TOKEN), env.VITE_HF_TOKEN)

\* The header of a request, undefined when it was not sent.
HeaderOf(req, name) ==
  IF name \in DOMAIN req.headers THEN JString(req.headers[name]) ELSE undefined

\* str.indexOf("?"), counted from 0; -1 when there is none.
RECURSIVE IndexOfQuery(_, _)
IndexOfQuery(str, i) ==
  IF i >= Len(str) THEN -1
  ELSE IF SubSeq(str, i + 1, i + 1) = "?" THEN i ELSE IndexOfQuery(str, i + 1)

\* req.url.split('?')[0] and req.url.slice(req.url.indexOf('?')) (vite.config.ts:39-40).
PathOnly(url) ==
  IF IndexOfQuery(url, 0) = -1 THEN url ELSE SubSeq(url, 1, IndexOfQuery(url, 0))
QueryOf(url) ==
  IF IndexOfQuery(url, 0) = -1 THEN "" ELSE SubSeq(url, IndexOfQuery(url, 0) + 1, Len(url))

\* new URL(req.url, ...).pathname and .search (part_001:42-43), for a path
\* without dot segments and characters to encode; the search of "?" alone is "".
Pathname(url) == PathOnly(url)
Search(url) == IF QueryOf(url) = "?" THEN "" ELSE QueryOf(url)

\* The provider.
Provider == "https://router.huggingface.co"

\* Every path taken for a models route.
TargetOfAnyPath(path, query, mount) ==
  Provider \o "/models/" \o SubSeq(path, Len(mount) + 2, Len(path)) \o query

\* target (part_001:45-54, vite.config.ts:42-52); "" for an unknown route.
\* `mount` is "/api/hf" in the production server; the dev server's middleware
\* sees the url with its mount point taken off.
TargetOf(path, query, mount) ==
  IF StartsWith(path, mount \o "/chat/completions")
  THEN Provider \o "/v1/chat/completions" \o query
  ELSE IF StartsWith(path, mount \o "/models/")
  THEN Provider \o "/models/" \o SubSeq(path, Len(mount \o "/models/") + 1, Len(path)) \o query
  ELSE ""

\* The headers of the upstream request, an Authorization of the client kept.
UpstreamHeadersOfClient(req, hfToken) ==
  [h \in {h \in {"Content-Type", "Accept", "Authorization"} :
            \/ h = "Content-Type" /\ Truthy(HeaderOf(req, "content-type"))
            \/ h = "Accept" /\ Truthy(HeaderOf(req, "accept"))
            \/ h = "Authorization"} |->
     IF h = "Content-Type" THEN req.headers["content-type"]
     ELSE IF h = "Accept" THEN req.headers["accept"]
     ELSE IF Truthy(HeaderOf(req, "authorization")) THEN req.headers["authorization"]
     ELSE "Bearer " \o hfToken.str]

\* headers (part_001:56-60, vite.config.ts:54-58).
UpstreamHeaders(req, hfToken) ==
  [h \in {h \in {"Content-Type", "Accept", "Authorization"} :
            \/ h = "Content-Type" /\ Truthy(HeaderOf(req, "content-type"))
            \/ h = "Accept" /\ Truthy(HeaderOf(req, "accept"))
            \/ h = "Authorization"} |->
     IF h = "Content-Type" THEN req.headers["content-type"]
     ELSE IF h = "Accept" THEN req.headers["accept"]
     ELSE "Bearer " \o hfToken.str]

\* What a handler does with a request: it answers, or it forwards.
Respond(status, headers, body) ==
  [kind |-> "respond", response |-> [status |-> status, headers |-> headers, body |-> body]]
Forward(target, req, hfToken) ==
  [kind |-> "forward",
   upstream |-> [target |-> target,
                 method |-> req.method,
                 headers |-> UpstreamHeaders(req, hfToken),
                 body |-> IF req.method = "GET" \/ req.method = "HEAD"
                          THEN undefined ELSE Some(req.body)]]

NoHeaders == [h \in {} |-> ""]
JsonType == [h \in {"Content-Type"} |-> "application/json"]
AllowOrigin == [h \in {"Access-Control-Allow-Origin"} |-> "*"]
\* The three headers of a preflight answer (part_001:29-33, vite.config.ts:23-25).
Cors ==
  [h \in {"Access-Control-Allow-Origin", "Access-Control-Allow-Methods",
          "Access-Control-Allow-Headers"} |->
     IF h = "Access-Control-Allow-Origin" THEN "*"
     ELSE IF h = "Access-Control-Allow-Methods" THEN "GET,POST,PUT,PATCH,DELETE,OPTIONS"
     ELSE "Content-Type, Authorization"]

\* JSON.stringify({ error: message })
ErrorBody(message) == "{\"error\":\"" \o EscapeJson(message) \o "\"}"

\* proxyHf with the unknown route named together with the credential.
proxyHfNamesToken(hfToken, req) ==
  IF req.method = "OPTIONS" THEN Respond(204, Cors, "")
  ELSE IF ~Truthy(hfToken)
  THEN Respond(500, JsonType, ErrorBody("Missing HF_TOKEN on server"))
  ELSE LET target == TargetOf(Pathname(req.url), Search(req.url), "/api/hf")
       IN IF target = ""
          THEN Respond(404, JsonType, ErrorBody("Unknown HF proxy route for " \o hfToken.str))
          ELSE Forward(target, req, hfToken)

\* proxyHf up to the fetch (part_001:27-65).
proxyHf(hfToken, req) ==
  IF req.method = "OPTIONS" THEN Respond(204, Cors, "")
  ELSE IF ~Truthy(hfToken)
  THEN Respond(500, JsonType, ErrorBody("Missing HF_TOKEN on server"))
  ELSE LET target == TargetOf(Pathname(req.url), Search(req.url), "/api/hf")
       IN IF target = ""
          THEN Respond(404, JsonType, ErrorBody("Unknown HF proxy route"))
          ELSE Forward(target, req, hfToken)

\* serveStatic (part_001:75-113) of a path that is no file of dist: index.html
\* when dist holds one.
serveStatic(req, indexExists) ==
  IF indexExists
  THEN Respond(200, [h \in {"Content-Type"} |-> "text/html"], "<!doctype html>")
  ELSE Respond(404, [h \in {"Content-Type"} |-> "text/plain"], "Not Found")

\* The request listener of the production server (part_001:115-125).
server(hfToken, req, indexExists) ==
  IF StartsWith(req.url, "/api/hf/") THEN proxyHf(hfToken, req)
  ELSE serveStatic(req, indexExists)

\* The middleware of the dev server up to the fetch (vite.config.ts:19-67);
\* `url` is req.url, the mount point taken off.
hfProxyPlugin(hfToken, req, url) ==
  IF req.method = "OPTIONS" THEN Respond(204, Cors, "")
  ELSE IF ~Truthy(hfToken)
  THEN Respond(500, Cors @@ JsonType,
               ErrorBody("Missing HF_TOKEN on server. Set it in .env.local"))
  ELSE LET target == TargetOf(PathOnly(url), QueryOf(url), "")
       IN IF target = ""
          THEN Respond(404, Cors @@ JsonType, ErrorBody("Unknown HF proxy route"))
          ELSE Forward(target, req, hfToken)

\* server.middlewares.use('/api/hf', ...) (vite.config.ts:18): the middleware
\* is run for the mount point and the paths under it, req.url without the
\* mount point; the other requests go to the next middleware.
Mounted(url) ==
  /\ StartsWith(url, "/api/hf")
  /\ Len(url) = 7 \/ SubSeq(url, 8, 8) \in {"/", "?"}
Unmounted(url) ==
  LET rest == SubSeq(url, 8, Len(url))
  IN IF StartsWith(rest, "/") THEN rest ELSE "/" \o rest
PassedOn == [kind |-> "next"]
devServer(hfToken, req) ==
  IF Mounted(req.url) THEN hfProxyPlugin(hfToken, req, Unmounted(req.url)) ELSE PassedOn

\* The answers of the provider: the fetch rejects, or a status, a content type
\* (null when there is none) and a body.
Upstream(status, contentType, body) ==
  [fetch |-> "resolves", status |-> status, contentType |-> contentType, body |-> body]

ContentTypeOf(upstream) ==
  IF Truthy(upstream.contentType)
  THEN [h \in {"Content-Type"} |-> upstream.contentType.str] ELSE NoHeaders

\* proxyHf from the fetch on (part_001:65-72); a rejection is caught by the
\* request listener (part_001:122-124).
proxyHfRelay(upstream) ==
  IF upstream.fetch = "rejects"
  THEN Respond(500, [h \in {"Content-Type"} |-> "text/plain"], "Internal Server Error")
  ELSE Respond(upstream.status, ContentTypeOf(upstream) @@ AllowOrigin, upstream.body)

\* The middleware from the fetch on (vite.config.ts:63-78): a rejection goes to
\* next(e).
hfProxyPluginRelay(upstream) ==
  IF upstream.fetch = "rejects" THEN [kind |-> "next", error |-> TRUE]
  ELSE Respond(upstream.status, ContentTypeOf(upstream) @@ Cors, upstream.body)

\* The two servers.
Production(indexExists) == [kind |-> "production", indexExists |-> indexExists]
Dev == [kind |-> "dev"]

Serve(srv, hfToken, req) ==
  IF srv.kind = "production" THEN server(hfToken, req, srv.indexExists)
  ELSE devServer(hfToken, req)

Relay(srv, upstream) ==
  IF srv.kind = "production" THEN proxyHfRelay(upstream) ELSE hfProxyPluginRelay(upstream)

\* ------------------------------------------ fluxService.ts: analyzeStyle
VlmEndpoint == "/api/hf/chat/completions"
EmbedEndpoint == "/api/hf/models/openai/clip-vit-base-patch32"

\* `x || fallback` on an optional string: undefined and "" are falsy.
OrElse(opt, fallback) == IF opt # undefined /\ opt[1] # "" THEN opt[1] ELSE fallback

\* `x && x.length ? x : fallback` on an optional array.
NonEmptyOrElse(opt, fallback) ==
  IF opt # undefined /\ Len(opt[1]) # 0 THEN opt[1] ELSE fallback

\* The merge as it would be with `??` in place of `||` and of the length test:
\* whatever is defined wins, empty or not.
MergeDefinedWins(vlm, palette, moodFallback, today) ==
  LET Pick(opt, fallback) == IF opt # undefined THEN opt[1] ELSE fallback
  IN [colorPalette |-> Pick(vlm.colorPalette, palette),
      moodKeywords |-> Pick(vlm.moodKeywords, moodFallback),
      suggestedName |-> Pick(vlm.suggestedName, "Custom Style " \o today),
      artisticStyle |-> Pick(vlm.artisticStyle, "Custom"),
      visualTechnique |-> Pick(vlm.visualTechnique, "Reference-guided"),
      reasoning |-> Pick(vlm.reasoning,
        "Extracted a dominant palette and inferred basic mood from reference images.")]

\* The merge of analyzeStyle (fluxService.ts:367-372); `today` is
\* new Date().toLocaleDateString().
Merge(vlm, palette, moodFallback, today) ==
  [colorPalette |-> NonEmptyOrElse(vlm.colorPalette, palette),
   moodKeywords |-> NonEmptyOrElse(vlm.moodKeywords, moodFallback),
   suggestedName |-> OrElse(vlm.suggestedName, "Custom Style " \o today),
   artisticStyle |-> OrElse(vlm.artisticStyle, "Custom"),
   visualTechnique |-> OrElse(vlm.visualTechnique, "Reference-guided"),
   reasoning |-> OrElse(vlm.reasoning,
     "Extracted a dominant palette and inferred basic mood from reference images.")]

\* One call of analyzeStyle: where it stands, what it has told onProgress, the
\* requests it has sent, its locals, and what the outside world answered (`world`).
NoAnswer == [palette |-> undefined, collage |-> undefined, vlm |-> undefined,
             embed |-> undefined, today |-> undefined]

\* What a call does, in the order of the code: a label told to onProgress, a
\* local stage started or settled, a request sent to a service or settled, the
\* return.
Label(text) == [kind |-> "label", what |-> text]
Started(stage) == [kind |-> "started", what |-> stage]
Sent(endpoint) == [kind |-> "sent", what |-> endpoint]
Settled(what) == [kind |-> "settled", what |-> what]
Returned == [kind |-> "returned", what |-> "analyzeStyle"]
Threw == [kind |-> "threw", what |-> "analyzeStyle"]

NewRun ==
  [pc |-> "idle", progress |-> <<>>, requests |-> <<>>, events |-> <<>>,
   palette |-> <<>>, moodFallback |-> <<>>, collage |-> FALSE,
   vlm |-> EmptyVlm, merged |-> undefined, embedding |-> undefined,
   world |-> NoAnswer]

\* fluxService.ts:344
Begin(r) ==
  [r EXCEPT !.pc = "palette",
            !.progress = Append(@, "Pre-processing: Normalizing inputs..."),
            !.events = @ \o <<Label("Pre-processing: Normalizing inputs..."),
                              Started("extractDominantPalette")>>]

\* fluxService.ts:345-346: extractDominantPalette resolves with a palette, or
\* rejects (an image that does not load), and then analyzeStyle rejects.
AfterPalette(r, outcome) ==
  IF outcome.threw
  THEN [r EXCEPT !.pc = "rejected", !.world.palette = outcome,
                 !.events = @ \o <<Settled("extractDominantPalette"), Threw>>]
  ELSE [r EXCEPT !.pc = "collage",
                 !.events = @ \o <<Settled("extractDominantPalette"),
                                   Started("createReferenceCollage")>>,
                 !.palette = outcome.value,
                 !.moodFallback = inferMoodKeywords(outcome.value),
                 !.world.palette = outcome]

\* The collage stage as it would be with the second label told only when a
\* collage was built.
AfterCollageQuietOnFailure(r, built) ==
  [r EXCEPT !.pc = "vlm",
            !.collage = built,
            !.progress = IF built
                         THEN Append(@, "Feature Extraction: Analyzing visual DNA...") ELSE @,
            !.events = @ \o <<Settled("createReferenceCollage")>>
                         \o (IF built
                             THEN <<Label("Feature Extraction: Analyzing visual DNA..."),
                                    Sent(VlmEndpoint)>>
                             ELSE <<>>),
            !.world.collage = built]

\* The collage stage as it would be with both requests started together.
AfterCollageSendsBoth(r, built) ==
  [r EXCEPT !.pc = "vlm",
            !.collage = built,
            !.progress = Append(@, "Feature Extraction: Analyzing visual DNA..."),
            !.events = @ \o <<Settled("createReferenceCollage"),
                              Label("Feature Extraction: Analyzing visual DNA...")>>
                         \o (IF built THEN <<Sent(VlmEndpoint), Sent(EmbedEndpoint)>> ELSE <<>>),
            !.world.collage = built]

\* fluxService.ts:348-355: createReferenceCollage in its try/catch, then the
\* second label and, with a collage, the request of extractStyleWithVlm
\* (fluxService.ts:189).
AfterCollage(r, built) ==
  [r EXCEPT !.pc = "vlm",
            !.collage = built,
            !.progress = Append(@, "Feature Extraction: Analyzing visual DNA..."),
            !.events = @ \o <<Settled("createReferenceCollage"),
                              Label("Feature Extraction: Analyzing visual DNA...")>>
                         \o (IF built THEN <<Sent(VlmEndpoint)>> ELSE <<>>),
            !.world.collage = built]

\* The VLM stage as it would be without its try/catch: a failed call rejects
\* analyzeStyle.
AfterVlmNoCatch(r, reply, today) ==
  LET call == IF r.collage THEN extractStyleWithVlm(reply)
              ELSE [threw |-> FALSE, value |-> EmptyVlm]
  IN IF call.threw
     THEN [r EXCEPT !.pc = "rejected", !.world.vlm = reply,
                    !.events = @ \o <<Settled(VlmEndpoint), Threw>>]
     ELSE [r EXCEPT !.pc = "embedding",
                    !.events = @ \o (IF r.collage THEN <<Settled(VlmEndpoint)>> ELSE <<>>)
                                    \o <<Label("Vectorization: Creating style embedding...")>>
                                    \o (IF r.collage THEN <<Sent(EmbedEndpoint)>> ELSE <<>>),
                    !.vlm = call.value,
                    !.merged = Merge(call.value, r.palette, r.moodFallback, today),
                    !.requests = IF r.collage THEN Append(@, VlmEndpoint) ELSE @,
                    !.progress = Append(@, "Vectorization: Creating style embedding..."),
                    !.world.vlm = reply, !.world.today = today]

\* The VLM stage as it would be with the catch also dropping the collage.
AfterVlmDropsCollage(r, reply, today) ==
  LET call == IF r.collage THEN extractStyleWithVlm(reply)
              ELSE [threw |-> FALSE, value |-> EmptyVlm]
      vlm == IF call.threw THEN EmptyVlm ELSE call.value
  IN [r EXCEPT !.pc = "embedding",
               !.vlm = vlm,
               !.collage = r.collage /\ ~call.threw,
               !.events = @ \o (IF r.collage THEN <<Settled(VlmEndpoint)>> ELSE <<>>)
                            \o <<Label("Vectorization: Creating style embedding...")>>
                            \o (IF r.collage /\ ~call.threw THEN <<Sent(EmbedEndpoint)>> ELSE <<>>),
               !.merged = Merge(vlm, r.palette, r.moodFallback, today),
               !.requests = IF r.collage THEN Append(@, VlmEndpoint) ELSE @,
               !.progress = Append(@, "Vectorization: Creating style embedding..."),
               !.world.vlm = reply, !.world.today = today]

\* The VLM stage as it would be with the request sent whether there is a
\* collage or not.
AfterVlmAsksAnyway(r, reply, today) ==
  LET call == IF r.collage THEN extractStyleWithVlm(reply)
              ELSE [threw |-> TRUE]
      vlm == IF call.threw THEN EmptyVlm ELSE call.value
  IN [r EXCEPT !.pc = "embedding",
               !.vlm = vlm,
               !.events = @ \o <<Sent(VlmEndpoint), Settled(VlmEndpoint),
                                 Label("Vectorization: Creating style embedding...")>>
                            \o (IF r.collage THEN <<Sent(EmbedEndpoint)>> ELSE <<>>),
               !.merged = Merge(vlm, r.palette, r.moodFallback, today),
               !.requests = Append(@, VlmEndpoint),
               !.progress = Append(@, "Vectorization: Creating style embedding..."),
               !.world.vlm = reply, !.world.today = today]

\* fluxService.ts:357-374: extractStyleWithVlm in its try/catch when there is
\* a collage, then the merge.
AfterVlm(r, reply, today) ==
  LET call == IF r.collage THEN extractStyleWithVlm(reply)
              ELSE [threw |-> FALSE, value |-> EmptyVlm]
      vlm == IF call.threw THEN EmptyVlm ELSE call.value
  IN [r EXCEPT !.pc = "embedding",
               !.vlm = vlm,
               !.events = @ \o (IF r.collage THEN <<Settled(VlmEndpoint)>> ELSE <<>>)
                            \o <<Label("Vectorization: Creating style embedding...")>>
                            \o (IF r.collage THEN <<Sent(EmbedEndpoint)>> ELSE <<>>),
               !.merged = Merge(vlm, r.palette, r.moodFallback, today),
               !.requests = IF r.collage THEN Append(@, VlmEndpoint) ELSE @,
               !.progress = Append(@, "Vectorization: Creating style embedding..."),
               !.world.vlm = reply, !.world.today = today]

\* fluxService.ts:375-392: extractImageEmbedding in its try/catch when there
\* is a collage, then the return.
AfterEmbedding(r, reply) ==
  LET call == IF r.collage THEN extractImageEmbedding(reply)
              ELSE [threw |-> FALSE, value |-> undefined]
  IN [r EXCEPT !.pc = "done",
               !.embedding = IF call.threw THEN undefined ELSE call.value,
               !.requests = IF r.collage THEN Append(@, EmbedEndpoint) ELSE @,
               !.events = @ \o (IF r.collage THEN <<Settled(EmbedEndpoint)>> ELSE <<>>)
                            \o <<Returned>>,
               !.world.embed = reply]

\* What analyzeStyle resolves with (fluxService.ts:384-392).
ResultOf(r) ==
  [artisticStyle |-> r.merged.artisticStyle,
   visualTechnique |-> r.merged.visualTechnique,
   colorPalette |-> r.merged.colorPalette,
   moodKeywords |-> r.merged.moodKeywords,
   suggestedName |-> r.merged.suggestedName,
   reasoning |-> r.merged.reasoning,
   embedding |-> r.embedding]

\* No request is sent without a collage; the stage then takes no reply.
NoCall == [fetch |-> "none"]

\* analyzeStyle from its call to its settling, in a world that answers `w`.
RunOf(w) ==
  LET r1 == AfterPalette(Begin(NewRun), w.palette)
  IN IF r1.pc = "rejected" THEN r1
     ELSE LET r3 == AfterVlm(AfterCollage(r1, w.collage), w.vlm, w.today)
          IN IF r3.pc = "rejected" THEN r3 ELSE AfterEmbedding(r3, w.embed)

analyzeStyle(w) == ResultOf(RunOf(w))

\* ------------------------------------------------- inputs of analyzeStyle
\* Longest colorPalette array the enumerated VLM answers hold.
MaxExternalColors == 2

\* The palette size analyzeStyle asks the quantizer for (fluxService.ts:345).
PaletteCount == 5

\* Palettes extractDominantPalette returns (bucket centres, "#" and lowercase).
QuantizerPalettes ==
  { <<>>,
    <<"#181818", "#282838">>,
    <<"#e81818", "#f8c828", "#e8e8e8", "#1848c8", "#f8f8f8">> }

PaletteOutcomes ==
  {[threw |-> TRUE]} \cup {[threw |-> FALSE, value |-> p] : p \in QuantizerPalettes}

\* new Date().toLocaleDateString() in two locales.
LocaleDates == {"11/4/2026", "4.11.2026"}

\* The body of a chat completion whose first choice carries `content`.
ChatData(content) ==
  JObject([choices |-> JArray(<<JObject([message |-> JObject([content |-> content])])>>)])

\* The object with the keys of `fields` that are not undefined.
ObjectOf(fields) ==
  JObject([k \in {k \in DOMAIN fields : fields[k] # undefined} |-> fields[k]])

StyleObject(a, t, c, m, n, r) ==
  ObjectOf([artisticStyle |-> a, visualTechnique |-> t, colorPalette |-> c,
            moodKeywords |-> m, suggestedName |-> n, reasoning |-> r])

GoodPalette == JArray(<<JString("#A1B2C3"), JString("zzzzzz"), JString("0x112233")>>)
GoodMoods == JArray(<<JString("calm"), JNumber(3), JString("bold")>>)

\* Every key absent, of a wrong type or empty, or well-formed.
MixedObjects ==
  { StyleObject(a, t, c, m, n, r) :
      a \in {undefined, JNumber(7), JString("Ukiyo-e")},
      t \in {undefined, JString(""), JString("Woodblock")},
      c \in {undefined, JArray(<<JString("zzzzzz")>>), GoodPalette},
      m \in {undefined, JArray(<<JNumber(1)>>), GoodMoods},
      n \in {undefined, null, JString("Edo Waves")},
      r \in {undefined, JArray(<<>>), JString("Flat colour planes.")} }

\* One key of a well-formed object replaced by a value of another kind.
OddValues ==
  { JString(""), JString(" "), JString("calm"), JNumber(0), null, JObject(<<>>),
    JArray(<<>>), JArray(<<JString("")>>), JArray(<<null, JNumber(1)>>),
    JArray(<<JString("a"), JString("b"), JString("c"), JString("d"),
             JString("e"), JString("f"), JString("g")>>) }

FullFields ==
  [artisticStyle |-> JString("Ukiyo-e"), visualTechnique |-> JString("Woodblock"),
   colorPalette |-> GoodPalette, moodKeywords |-> GoodMoods,
   suggestedName |-> JString("Edo Waves"), reasoning |-> JString("Flat colour planes.")]

OddObjects ==
  { ObjectOf([FullFields EXCEPT ![k] = v]) : k \in StyleKeys, v \in OddValues }

\* Colour strings: white space, "0x" or "0X", "#", digits, white space; and
\* the prefixes the other way round or doubled.
HexBodies == {"a1b2c3", "A1B2C3", "zzzzzz", "a1b2c", "a1b2c3d", "12345g", "a1b 2c3", ""}

HexCandidates ==
  { pad1 \o pre \o hash \o body \o pad2 :
      pad1 \in {"", " "}, pre \in {"", "0x", "0X"}, hash \in {"", "#"},
      body \in HexBodies, pad2 \in {"", "\t"} }
  \cup { pre \o body : pre \in {"#0x", "##", "0x0x", "0x #", "x", "0"}, body \in HexBodies }

ColorEntries ==
  { JString("#A1B2C3"), JString("0x112233"), JString("zzzzzz"),
    JString(" #ffffff"), JNumber(255) }

RECURSIVE SeqsUpTo(_, _)
SeqsUpTo(S, n) ==
  IF n = 0 THEN {<<>>}
  ELSE SeqsUpTo(S, n - 1) \cup
       { Append(q, x) : q \in {q \in SeqsUpTo(S, n - 1) : Len(q) = n - 1}, x \in S }

\* Objects that carry a colorPalette only.
PaletteObjects ==
  { ObjectOf([colorPalette |-> JArray(<<JString(h)>>)]) : h \in HexCandidates }
  \cup { ObjectOf([colorPalette |-> JArray(q)]) : q \in SeqsUpTo(ColorEntries, MaxExternalColors) }
  \cup { ObjectOf([colorPalette |->
           JArray(<<JString("#111111"), JString("#222222"), JString("zzzzzz"),
                    JString("#333333"), JString("#444444")>>)]) }
  \cup { ObjectOf([colorPalette |->
           JArray(<<JString("#111111"), JString("#222222"), JString("#333333"),
                    JString("#444444"), JString("#555555"), JString("#666666")>>)]) }

\* Texts with a fence or prose around the body, and bodies that are no object.
WrappedTexts ==
  { Text(fenced, prose, body) :
      fenced \in BOOLEAN, prose \in BOOLEAN,
      body \in { ObjectOf(FullFields), JArray(<<JString("calm")>>), JString("Ukiyo-e"),
                 JNumber(5), null, Unparseable, UnparseableBraces } }

VlmReplies ==
  { Rejects, NotOk(503), NotOk(404), Ok(Unparseable), Ok(null), Ok(JObject(<<>>)),
    Ok(JObject([choices |-> JArray(<<>>)])),
    Ok(ChatData(null)), Ok(ChatData(JNumber(7))), Ok(ChatData(JString(Blank))) }
  \cup { Ok(ChatData(JString(Text(FALSE, FALSE, body)))) :
           body \in MixedObjects \cup OddObjects \cup PaletteObjects }
  \cup { Ok(ChatData(JString(text))) : text \in WrappedTexts }

EmbedReplies ==
  { Rejects, NotOk(503), Ok(Unparseable), Ok(null),
    Ok(JObject([error |-> JString("Model is loading")])),
    Ok(JArray(<<>>)),
    Ok(JArray(<<JNumber(1), JNumber(2)>>)),
    Ok(JArray(<<JNumber(1), JString("x"), JNumber(3)>>)),
    Ok(JArray(<<JArray(<<JNumber(4), null, JNumber(5)>>), JArray(<<JNumber(9)>>)>>)) }

\* ------------------------------------------------------------------ inputs
\* What analyzeStyle hands to onStyleAnalyzed (StyleAnalysisResponse): once with
\* every stage on its fallback, once with every stage answered.
SampleWorlds ==
  { [palette |-> [threw |-> FALSE, value |-> <<"#181818", "#282838">>],
     collage |-> FALSE, vlm |-> NoCall, embed |-> NoCall, today |-> "11/4/2026"],
    [palette |-> [threw |-> FALSE, value |-> <<"#181818", "#282838">>],
     collage |-> TRUE,
     vlm |-> Ok(ChatData(JString(Text(FALSE, FALSE, ObjectOf(FullFields))))),
     embed |-> Ok(JArray(<<JNumber(1), JNumber(2)>>)), today |-> "11/4/2026"] }

SampleAnalyses == { analyzeStyle(w) : w \in SampleWorlds }

\* The data URLs handleAnalyze reads from the uploaded files (3 to 5 of them).
SampleImages == <<"data:a", "data:b", "data:c">>

\* The editor's form (StyleEditor.tsx:15-19), after the user typed in it.
\* `mask` names the inputs the user changed.
EditedName(n) == IF n = "Neo-Cyberpunk" THEN "Edo Waves" ELSE "Neo-Cyberpunk"
EditedDescription(d) == IF d = "Glitch" THEN "Custom" ELSE "Glitch"
EditedTechnique(t) == IF t = "Impasto" THEN "Woodblock" ELSE "Impasto"
\* The colour inputs replace one entry (newPalette[idx] = value); no entry is added.
EditedPalette(pal) ==
  IF pal = <<>> THEN pal
  ELSE [pal EXCEPT ![1] = IF pal[1] = "#000000" THEN "#ffffff" ELSE "#000000"]
\* The tag input appends a tag; the X button filters one out.
EditedMoods(m) ==
  LET NotDreamy(x) == x # "dreamy"
  IN IF "dreamy" \in Range(m) THEN SeqFilter(NotDreamy, m) ELSE Append(m, "dreamy")

FormOf(p, mask) ==
  [name |-> IF "name" \in mask THEN EditedName(p.name) ELSE p.name,
   description |-> IF "description" \in mask
                   THEN EditedDescription(p.description) ELSE p.description,
   technique |-> IF "technique" \in mask
                 THEN EditedTechnique(p.visualTechnique) ELSE p.visualTechnique,
   palette |-> IF "palette" \in mask THEN EditedPalette(p.palette) ELSE p.palette,
   moods |-> IF "moods" \in mask THEN EditedMoods(p.moods) ELSE p.moods]

FormKeys == {"name", "description", "technique", "palette", "moods"}
\* Editor session: nothing changed, or one group of inputs changed.
EditorMasks == {{}, {"name", "palette"}, {"description", "technique", "moods"}}
\* Library session: every input changed.
AppMasks == {FormKeys}
\* Library session: every analysis returns the first sample.
AppAnalyses == {a \in SampleAnalyses : a.embedding = undefined}

\* What a session is bounded by and draws its inputs from.
\* `failures`: how many localStorage.setItem calls may throw.
\* `tick`: how far Date.now() moves from one handler to the next; no handler
\* branches on the time, and the library sessions keep it still.
AppCfg == [profiles |-> MaxProfiles,
           version |-> MaxAppVersion, masks |-> AppMasks, analyses |-> AppAnalyses,
           failures |-> MaxWriteFailures, tick |-> 0]
RaceCfg == [profiles |-> RaceProfiles,
            version |-> MaxAppVersion, masks |-> AppMasks, analyses |-> AppAnalyses,
            failures |-> 0, tick |-> 0]
EditorCfg == [profiles |-> 1,
              version |-> MaxVersion, masks |-> EditorMasks, analyses |-> SampleAnalyses,
              failures |-> MaxWriteFailures, tick |-> 1]

\* ------------------------------------------------------------- the screens
\* App.tsx:142-266: which of the three screens a render shows.
GeneratorShown(active) == active # null
LibraryShown(active, view, saved) ==
  active = null /\ view = "LIBRARY" /\ Len(saved) > 0
UploaderShown(active, view, saved) ==
  active = null /\ ~(view = "LIBRARY" /\ Len(saved) > 0)

\* The StyleUploader keeps its state while it stays on screen; leaving the screen
\* unmounts it (its state is gone, and analyses it started no longer reach it).
Unlive(pend) == [i \in DOMAIN pend |-> [pend[i] EXCEPT !.live = FALSE]]

Render(active2, view2, saved2, pend2) ==
  LET stays == /\ UploaderShown(activeProfile, viewMode, savedProfiles)
               /\ UploaderShown(active2, view2, saved2)
  IN /\ isAnalyzing' = (stays /\ isAnalyzing)
     /\ pending' = IF stays THEN pend2 ELSE Unlive(pend2)

Call(w) == [alerted |-> w.alerted, threw |-> w.threw]

\* What localStorage.setItem may do with the next blob: store it (TRUE) or throw.
WriteOutcomes(b) == IF writeFailures < b.failures THEN BOOLEAN ELSE {TRUE}
Wrote(writeOk) == writeFailures' = writeFailures + (IF writeOk THEN 0 ELSE 1)
NoWrite == [alerted |-> FALSE, threw |-> FALSE]



\* ----------------------------------------------------------------- actions
\* StyleUploader.handleAnalyze up to its first await: the button is enabled with
\* three images or more, and is not rendered while isAnalyzing. The
\* onStyleAnalyzed it will call is the handleStyleAnalyzed of this render, which
\* holds this render's savedProfiles.
StartAnalyze(b) ==
  /\ UploaderShown(activeProfile, viewMode, savedProfiles)
  /\ ~isAnalyzing
  /\ nextId + Len(pending) < b.profiles
  /\ isAnalyzing' = TRUE
  /\ pending' = Append(pending, [closure |-> savedProfiles, live |-> TRUE,
                                 images |-> SampleImages])
  /\ lastCall' = Call(NoWrite)
  /\ UNCHANGED <<savedProfiles, persisted, activeProfile, viewMode,
                 nextId, clock, deleted, writeFailures>>

\* analyzeStyle resolved and the 800 ms timer fired: onStyleAnalyzed(analysis,
\* base64Images), that is handleStyleAnalyzed of the render captured at the click.
AnalysisDelivered(b) ==
  \E i \in DOMAIN pending, analysis \in b.analyses, writeOk \in WriteOutcomes(b) :
    LET newProfile == NewProfile(analysis, pending[i].images, nextId + 1, clock)
        updatedProfiles == handleStyleAnalyzed(pending[i].closure, newProfile)
        w == saveProfilesToStorage(persisted, updatedProfiles, writeOk)
        active2 == IF w.threw THEN activeProfile ELSE newProfile
    IN /\ nextId < b.profiles
       /\ nextId' = nextId + 1
       /\ savedProfiles' = updatedProfiles
       /\ persisted' = w.store
       /\ activeProfile' = active2
       /\ Render(active2, viewMode, updatedProfiles, RemoveAt(pending, i))
       /\ clock' = clock + b.tick
       /\ Wrote(writeOk)
       /\ lastCall' = Call(w)
       /\ UNCHANGED <<viewMode, deleted>>

\* analyzeStyle rejected: the catch of handleAnalyze (StyleUploader.tsx:79-83).
\* Its setIsAnalyzing(false) reaches the uploader only if it is still mounted.
AnalysisFailed ==
  \E i \in DOMAIN pending :
    /\ pending' = RemoveAt(pending, i)
    /\ isAnalyzing' = IF pending[i].live THEN FALSE ELSE isAnalyzing
    /\ lastCall' = Call(NoWrite)
    /\ UNCHANGED <<savedProfiles, persisted, activeProfile, viewMode,
                   nextId, clock, deleted, writeFailures>>

\* Library card onClick (App.tsx:202).
SelectProfile ==
  \E i \in DOMAIN savedProfiles :
    /\ LibraryShown(activeProfile, viewMode, savedProfiles)
    /\ activeProfile' = savedProfiles[i]
    /\ Render(savedProfiles[i], viewMode, savedProfiles, pending)
    /\ lastCall' = Call(NoWrite)
    /\ UNCHANGED <<savedProfiles, persisted, viewMode, nextId,
                   clock, deleted, writeFailures>>

\* Trash button of a library card: deleteProfile(e, id), the user having
\* answered confirm() with OK (with Cancel the handler changes nothing).
DeleteProfile(b) ==
  \E i \in DOMAIN savedProfiles, writeOk \in WriteOutcomes(b) :
    LET updatedList == deleteProfile(savedProfiles, savedProfiles[i].id)
        w == saveProfilesToStorage(persisted, updatedList, writeOk)
        view2 == IF ~w.threw /\ Len(updatedList) = 0 THEN "CREATE" ELSE viewMode
    IN /\ LibraryShown(activeProfile, viewMode, savedProfiles)
       /\ savedProfiles' = updatedList
       /\ persisted' = w.store
       /\ viewMode' = view2
       /\ Render(activeProfile, view2, updatedList, pending)
       /\ deleted' = deleted \cup {savedProfiles[i].id}
       /\ Wrote(writeOk)
       /\ lastCall' = Call(w)
       /\ UNCHANGED <<activeProfile, nextId, clock>>

\* "New Style Node" and the inline create card: setViewMode('CREATE').
NewStyleNode ==
  /\ LibraryShown(activeProfile, viewMode, savedProfiles)
  /\ viewMode' = "CREATE"
  /\ Render(activeProfile, "CREATE", savedProfiles, pending)
  /\ lastCall' = Call(NoWrite)
  /\ UNCHANGED <<savedProfiles, persisted, activeProfile, nextId,
                 clock, deleted, writeFailures>>

\* "Back to Library" (App.tsx:256-263), rendered when the list is not empty.
BackToLibrary ==
  /\ UploaderShown(activeProfile, viewMode, savedProfiles)
  /\ Len(savedProfiles) > 0
  /\ viewMode' = "LIBRARY"
  /\ Render(activeProfile, "LIBRARY", savedProfiles, pending)
  /\ lastCall' = Call(NoWrite)
  /\ UNCHANGED <<savedProfiles, persisted, activeProfile, nextId,
                 clock, deleted, writeFailures>>

\* returnToDashboard (App.tsx:94-98): the logo, "New Style", the generator's reset.
ReturnToDashboard ==
  LET view2 == IF Len(savedProfiles) > 0 THEN "LIBRARY" ELSE "CREATE"
  IN /\ GeneratorShown(activeProfile)
     /\ activeProfile' = null
     /\ viewMode' = view2
     /\ Render(null, view2, savedProfiles, pending)
     /\ lastCall' = Call(NoWrite)
     /\ UNCHANGED <<savedProfiles, persisted, nextId, clock, deleted, writeFailures>>

\* The commit both editor handlers end with: onUpdate(profile), that is
\* handleProfileUpdate (App.tsx:73-80).
Commit(b, updatedProfile, writeOk) ==
  LET updatedList == handleProfileUpdate(savedProfiles, updatedProfile)
      w == saveProfilesToStorage(persisted, updatedList, writeOk)
  IN /\ activeProfile' = updatedProfile
     /\ savedProfiles' = updatedList
     /\ persisted' = w.store
     /\ Render(updatedProfile, viewMode, updatedList, pending)
     /\ clock' = clock + b.tick
     /\ Wrote(writeOk)
     /\ lastCall' = Call(w)
     /\ UNCHANGED <<viewMode, nextId, deleted>>

\* StyleEditor "Save": handleSave on the profile of the generator screen.
SaveEdit(b) ==
  \E mask \in b.masks, writeOk \in WriteOutcomes(b) :
    /\ GeneratorShown(activeProfile)
    /\ activeProfile.version < b.version
    /\ Commit(b, handleSave(activeProfile, FormOf(activeProfile, mask), clock), writeOk)

\* StyleEditor "Revert" on one row of the history tab.
RevertEdit(b) ==
  \E writeOk \in WriteOutcomes(b) :
    /\ GeneratorShown(activeProfile)
    /\ activeProfile.version < b.version
    /\ \E i \in DOMAIN activeProfile.history :
         Commit(b, handleRevert(activeProfile, activeProfile.history[i], clock), writeOk)

\* --------------------------------------------- the steps of analyzeStyle
\* analyzeStyle is called: the first progress label.
AnalyzeCalled ==
  /\ run.pc = "idle"
  /\ run' = Begin(run)
  /\ UNCHANGED appVars

\* extractDominantPalette settles.
PaletteExtracted ==
  \E outcome \in PaletteOutcomes :
    /\ run.pc = "palette"
    /\ run' = AfterPalette(run, outcome)
    /\ UNCHANGED appVars

\* createReferenceCollage settles: a collage, or the catch.
CollageSettled ==
  \E built \in BOOLEAN :
    /\ run.pc = "collage"
    /\ run' = AfterCollage(run, built)
    /\ UNCHANGED appVars

\* The VLM stage and the merge.
VlmSettled ==
  \E reply \in (IF run.collage THEN VlmReplies ELSE {NoCall}), today \in LocaleDates :
    /\ run.pc = "vlm"
    /\ run' = AfterVlm(run, reply, today)
    /\ UNCHANGED appVars

\* The embedding stage and the return.
EmbeddingSettled ==
  \E reply \in (IF run.collage THEN EmbedReplies ELSE {NoCall}) :
    /\ run.pc = "embedding"
    /\ run' = AfterEmbedding(run, reply)
    /\ UNCHANGED appVars

\* ---------------------------------------------------------- specifications
\* The library session: an empty store, the uploader on screen.
\* No service call under study.
Idle == [pc |-> "idle"]

\* The application as it starts: an empty store, the uploader on screen, no
\* analysis called.
InitLibrary ==
  /\ savedProfiles = <<>>
  /\ persisted = undefined
  /\ activeProfile = null
  /\ viewMode = "CREATE"
  /\ pending = <<>>
  /\ isAnalyzing = FALSE
  /\ nextId = 0
  /\ clock = 0
  /\ deleted = {}
  /\ writeFailures = 0
  /\ lastCall = Call(NoWrite)
  /\ run = NewRun

ServicesIdle ==
  /\ quantizer = Idle
  /\ heuristic = Idle
  /\ fusion = Idle
  /\ gateway = Idle
  /\ proxy = Idle
  /\ generator = Idle
  /\ consultant = Idle

InitApp ==
  /\ InitLibrary
  /\ ServicesIdle

Library(b) ==
  \/ StartAnalyze(b)
  \/ AnalysisDelivered(b)
  \/ AnalysisFailed
  \/ SelectProfile
  \/ DeleteProfile(b)
  \/ NewStyleNode
  \/ BackToLibrary
  \/ ReturnToDashboard
  \/ SaveEdit(b)

NextApp == Library(AppCfg) /\ UNCHANGED <<run, svcVars>>

SpecApp == InitApp /\ [][NextApp]_vars

NextRace == Library(RaceCfg) /\ UNCHANGED <<run, svcVars>>

SpecRace == InitApp /\ [][NextRace]_vars

\* The editor session: the first analysis has just been delivered, its profile
\* is on the generator screen.
InitEditor ==
  \E analysis \in SampleAnalyses :
    LET p == NewProfile(analysis, SampleImages, 1, 0)
    IN /\ savedProfiles = <<p>>
       /\ persisted = Some(JsonStringify(<<p>>))
       /\ activeProfile = p
       /\ viewMode = "CREATE"
       /\ pending = <<>>
       /\ isAnalyzing = FALSE
       /\ nextId = 1
       /\ clock = 0
       /\ deleted = {}
       /\ writeFailures = 0
       /\ lastCall = Call(NoWrite)
       /\ run = NewRun
       /\ ServicesIdle

Editor ==
  \/ SaveEdit(EditorCfg)
  \/ RevertEdit(EditorCfg)
  \/ ReturnToDashboard
  \/ SelectProfile

NextEditor == Editor /\ UNCHANGED <<run, svcVars>>

SpecEditor == InitEditor /\ [][NextEditor]_vars

\* One call of analyzeStyle, the library untouched.
StagesOfAnalyze ==
  \/ AnalyzeCalled
  \/ PaletteExtracted
  \/ CollageSettled
  \/ VlmSettled
  \/ EmbeddingSettled

NextAnalyze == StagesOfAnalyze /\ UNCHANGED svcVars

SpecAnalyze == InitApp /\ [][NextAnalyze]_vars

\* ------------------------------------------- extractDominantPalette alone
\* Most files of one call, largest count asked for.
MaxFiles == 2
MaxCount == 3

Px(r, g, b, a) == [r |-> r, g |-> g, b |-> b, a |-> a]
Red == Px(232, 24, 24, 255)
Blue == Px(24, 72, 200, 255)
Slate == Px(51, 102, 204, 255)
White == Px(255, 255, 255, 220)
Veiled == Px(0, 0, 0, 219)
Black == Px(0, 0, 0, 255)
NearBlack == Px(15, 15, 15, 250)
Dusk == Px(16, 0, 0, 255)
Green == Px(0, 255, 0, 255)

\* Pixel buffers of downscaled images; every third pixel is sampled.
SamplePixelData ==
  { <<Slate, Slate, Slate, Slate, Slate, Slate, Slate>>,
    <<Red, Green, Green, Red, Green, Green, Blue>>,
    <<Veiled, Green, Green, White>>,
    <<Dusk, Red, Red, Blue, Red, Red, White, Red, Red, Black>>,
    <<Black, Green, Green, NearBlack, Green, Green, Dusk>>,
    <<Blue>> }

FileOutcomes == {Unreadable, NoContext} \cup { ImageData(d) : d \in SamplePixelData }

InitQuantizer ==
  /\ InitLibrary
  /\ heuristic = Idle /\ fusion = Idle /\ gateway = Idle /\ proxy = Idle
  /\ generator = Idle /\ consultant = Idle
  /\ \E files \in SeqsUpTo(FileOutcomes, MaxFiles), count \in 0..MaxCount :
       quantizer = [pc |-> "called", files |-> files, count |-> count]

\* extractDominantPalette settles: it returns the colours, or rejects.
PaletteReturned ==
  /\ quantizer.pc = "called"
  /\ quantizer' = [pc |-> "settled", files |-> quantizer.files, count |-> quantizer.count,
                   result |-> extractDominantPalette(quantizer.files, quantizer.count)]
  /\ UNCHANGED <<appVars, run, heuristic, fusion, gateway, proxy, generator, consultant>>

NextQuantizer == PaletteReturned

SpecQuantizer == InitQuantizer /\ [][NextQuantizer]_vars

\* ------------------------------------------------ inferMoodKeywords alone
\* Longest palette handed to the heuristic.
MaxMoodPalette == 2

\* Entries of a palette: quantizer colours, dark, light, saturated and grey, and
\* strings that are no #rrggbb.
MoodColors ==
  { "#181818", "#f8f8f8", "#e81818", "#888888", "f8c828", "#FFF", "",
    "12#3456", "#-1-1-1", "#zzzzzz" }

InitHeuristic ==
  /\ InitLibrary
  /\ quantizer = Idle /\ fusion = Idle /\ gateway = Idle /\ proxy = Idle
  /\ generator = Idle /\ consultant = Idle
  /\ \E palette \in SeqsUpTo(MoodColors, MaxMoodPalette) :
       heuristic = [pc |-> "called", palette |-> palette]

\* inferMoodKeywords returns.
MoodsReturned ==
  /\ heuristic.pc = "called"
  /\ heuristic' = [pc |-> "returned", palette |-> heuristic.palette,
                   result |-> inferMoodKeywords(heuristic.palette)]
  /\ UNCHANGED <<appVars, run, quantizer, fusion, gateway, proxy, generator, consultant>>

NextHeuristic == MoodsReturned

SpecHeuristic == InitHeuristic /\ [][NextHeuristic]_vars

\* ------------------------------------------------- performReasoning alone
\* Prompts: plain, with white space at either end, of several lines, empty.
UserPrompts == {"draw a cat", " draw a cat", "draw a cat \n", "a\n\nb", "", " "}

Strings(seq) == JArray([i \in 1..Len(seq) |-> JString(seq[i])])

\* Styles: a profile with every part absent, empty or filled; an analysis
\* (colorPalette, moodKeywords); no style.
FusionStyles ==
  { ObjectOf([visualTechnique |-> t, moods |-> m, palette |-> c]) :
      t \in {undefined, JString(""), JString("ink wash")},
      m \in {undefined, Strings(<<>>), Strings(<<"calm">>), Strings(<<"calm", "bold">>)},
      c \in {undefined, Strings(<<>>), Strings(<<"#111111">>),
             Strings(<<"#111111", "#222222", "#333333", "#444444", "#555555", "#666666">>)} }
  \cup { ObjectOf([colorPalette |-> Strings(<<"#a1b2c3">>),
                   moodKeywords |-> Strings(<<"airy", "muted", "stylized">>)]),
         ObjectOf([palette |-> Strings(<<>>), colorPalette |-> Strings(<<"#a1b2c3">>),
                   moods |-> null, moodKeywords |-> Strings(<<"airy">>)]),
         null }

\* Intensities in thousandths: the slider's steps, either side of each
\* threshold, halves of a percent, beyond both ends; and NaN.
Intensities ==
  { Milli(n) : n \in {-200, 0, 100, 149, 150, 200, 375, 399, 400, 500, 625,
                      799, 800, 900, 1000, 1500} } \cup {NaN}

InitFusion ==
  /\ InitLibrary
  /\ quantizer = Idle /\ heuristic = Idle /\ gateway = Idle /\ proxy = Idle
  /\ generator = Idle /\ consultant = Idle
  /\ \E userPrompt \in UserPrompts, styleData \in FusionStyles, intensity \in Intensities,
        entry \in {"performReasoning", "fusePrompt"} :
       fusion = [pc |-> "called", entry |-> entry, userPrompt |-> userPrompt,
                 styleData |-> styleData, intensity |-> intensity]

\* performReasoning, called directly or through fusePrompt, resolves.
ReasoningReturned ==
  /\ fusion.pc = "called"
  /\ fusion' = [fusion EXCEPT !.pc = "returned"] @@
               [result |->
                  IF fusion.entry = "fusePrompt"
                  THEN fusePrompt(fusion.userPrompt, fusion.styleData, fusion.intensity)
                  ELSE performReasoning(fusion.userPrompt, fusion.styleData,
                                        fusion.intensity)]
  /\ UNCHANGED <<appVars, run, quantizer, heuristic, gateway, proxy, generator, consultant>>

NextFusion == ReasoningReturned

SpecFusion == InitFusion /\ [][NextFusion]_vars

\* ------------------------------------------------ generateFromGraph alone
FusedPrompts ==
  {"draw a cat", "draw a \"cat\"\n\nStyle guidance (strict, 90%): Mood: calm."}
AspectRatios == {"1:1", "3:4", "4:3", "16:9"}
Resolutions == {"1K", "2K", "4K"}
ReferenceSets == {<<>>, <<"data:a">>}
InputSets == {<<>>, <<"data:b">>, <<"data:b", "data:c">>}
FluxModels == {undefined, JString("black-forest-labs/FLUX.1-dev")}

\* The calls of the generator, of the comparison and of the shim.
GatewayCalls ==
  { generateFromGraph("draw a cat", fused, refs, inputs, ar, res) :
      fused \in FusedPrompts, refs \in ReferenceSets, inputs \in InputSets,
      ar \in AspectRatios, res \in Resolutions }
  \cup { editImage(inputs, prompt) : inputs \in InputSets, prompt \in FusedPrompts }
  \cup { generateStyledImage("draw a cat", fused, refs, ar) :
           fused \in FusedPrompts, refs \in ReferenceSets, ar \in AspectRatios }

ImageReplies ==
  { Rejects,
    Failed(404, "Not Found", Some("Model not found")),
    Failed(403, "Forbidden", undefined),
    Failed(503, "Service Unavailable", Some("")),
    Image("image/png", "iVBORw0KGgo=", TRUE),
    Image("image/jpeg", "/9j/4AAQ", FALSE) }

InitGateway ==
  /\ InitLibrary
  /\ quantizer = Idle /\ heuristic = Idle /\ fusion = Idle /\ proxy = Idle
  /\ generator = Idle /\ consultant = Idle
  /\ \E args \in GatewayCalls, env \in FluxModels :
       gateway = [pc |-> "called", args |-> args, env |-> env]

\* generateFromGraph builds the payload and starts the fetch.
ImageRequested ==
  /\ gateway.pc = "called"
  /\ gateway' = [pc |-> "requested", args |-> gateway.args, env |-> gateway.env,
                 request |-> ImageRequest(gateway.env, gateway.args.fusedPrompt,
                                          gateway.args.aspectRatio, gateway.args.resolution),
                 requests |-> <<ImageRequest(gateway.env, gateway.args.fusedPrompt,
                                             gateway.args.aspectRatio, gateway.args.resolution)>>]
  /\ UNCHANGED <<appVars, run, quantizer, heuristic, fusion, proxy, generator, consultant>>

\* The fetch settles; a request that failed is sent a second time.
ImageSettledResends ==
  \E res \in ImageReplies :
    /\ gateway.pc = "requested"
    /\ gateway' = IF ImageResult(res).threw /\ Len(gateway.requests) < 2
                  THEN [gateway EXCEPT !.requests = Append(@, gateway.request)]
                  ELSE [pc |-> "settled", args |-> gateway.args, env |-> gateway.env,
                        request |-> gateway.request, requests |-> gateway.requests,
                        reply |-> res, result |-> ImageResult(res)]
    /\ UNCHANGED <<appVars, run, quantizer, heuristic, fusion, proxy, generator, consultant>>

\* The fetch settles and generateFromGraph with it (fluxService.ts:449-467).
ImageSettled ==
  \E res \in ImageReplies :
    /\ gateway.pc = "requested"
    /\ gateway' = [pc |-> "settled", args |-> gateway.args, env |-> gateway.env,
                   request |-> gateway.request, requests |-> gateway.requests,
                   reply |-> res, result |-> ImageResult(res)]
    /\ UNCHANGED <<appVars, run, quantizer, heuristic, fusion, proxy, generator, consultant>>

NextGateway ==
  \/ ImageRequested
  \/ ImageSettled

SpecGateway == InitGateway /\ [][NextGateway]_vars

\* ----------------------------------------------------- the Generator alone
\* Workflow runs started in one session of the panel.
MaxRuns == 3

\* What the prompt field holds: nothing, a blank, a prompt.
GeneratorPrompts == {"", " ", "a cat"}

\* The panel as it mounts (ApiKeyModal.tsx:86-114); the split test is on or off.
InitGenerator ==
  /\ InitLibrary
  /\ quantizer = Idle /\ heuristic = Idle /\ fusion = Idle /\ gateway = Idle
  /\ proxy = Idle /\ consultant = Idle
  /\ \E isComparing \in BOOLEAN :
       generator = [prompt |-> "", isProcessing |-> FALSE, isComparing |-> isComparing,
                    runs |-> <<>>, started |-> 0, generated |-> <<>>,
                    delivered |-> <<>>, alerts |-> 0]

\* The user edits the prompt (ApiKeyModal.tsx:557).
TypePrompt ==
  \E text \in GeneratorPrompts :
    /\ generator.prompt # text
    /\ generator' = [generator EXCEPT !.prompt = text]
    /\ UNCHANGED <<appVars, run, quantizer, heuristic, fusion, gateway, proxy, consultant>>

\* "Run Workflow" (ApiKeyModal.tsx:589-591): disabled while isProcessing or
\* without a prompt.
ClickRun ==
  /\ ~(generator.isProcessing \/ generator.prompt = "")
  /\ generator.started < MaxRuns
  /\ generator' = handleAction(generator)
  /\ UNCHANGED <<appVars, run, quantizer, heuristic, fusion, gateway, proxy, consultant>>

\* Enter in the prompt field (ApiKeyModal.tsx:558-563).
PressEnter ==
  /\ generator.started < MaxRuns
  /\ generator' = handleAction(generator)
  /\ UNCHANGED <<appVars, run, quantizer, heuristic, fusion, gateway, proxy, consultant>>

\* generateFromGraph settles for the styled image of a run.
StyledImageSettled ==
  \E i \in DOMAIN generator.runs, ok \in BOOLEAN :
    /\ generator.runs[i].pc = "generating"
    /\ generator' = AfterStyledImage(generator, i, ok)
    /\ UNCHANGED <<appVars, run, quantizer, heuristic, fusion, gateway, proxy, consultant>>

\* generateFromGraph settles for the raw image of a run.
RawImageSettled ==
  \E i \in DOMAIN generator.runs, ok \in BOOLEAN :
    /\ generator.runs[i].pc = "comparing"
    /\ generator' = AfterRawImage(generator, i, ok)
    /\ UNCHANGED <<appVars, run, quantizer, heuristic, fusion, gateway, proxy, consultant>>

NextGenerator ==
  \/ TypePrompt
  \/ ClickRun
  \/ PressEnter
  \/ StyledImageSettled
  \/ RawImageSettled

SpecGenerator == InitGenerator /\ [][NextGenerator]_vars

\* ------------------------------------------------ the voice consultant alone
\* Transcripts the recognizer delivers, and clicks on the microphone button,
\* in one session.
MaxTranscripts == 3
MaxToggles == 2

\* What the recognizer hears, and what the assistant answers.
Transcripts == {" ", "make it blue", " a poster"}
AssistantReplies == {null, JString("Try neon blue. ")}

\* The panel as it mounts (VoiceConsultant.tsx:23-34).
InitVoice ==
  /\ InitLibrary
  /\ quantizer = Idle /\ heuristic = Idle /\ fusion = Idle /\ gateway = Idle
  /\ proxy = Idle /\ generator = Idle
  /\ consultant = [isActive |-> FALSE, status |-> "idle", error |-> null,
                   chatHistory |-> <<>>, recognitionRef |-> FALSE, isBusy |-> FALSE,
                   rec |-> NoRecognizer, requests |-> <<>>,
                   heard |-> 0, toggles |-> 0]

\* A click on the microphone button; a new recognizer is built once the one
\* before has ended.
Toggle ==
  \E supported \in BOOLEAN, starts \in BOOLEAN :
    /\ consultant.toggles < MaxToggles
    /\ consultant.isActive \/ consultant.rec.state \in {"none", "ended"}
    /\ consultant' = [handleToggle(consultant, supported, starts)
                        EXCEPT !.toggles = @ + 1]
    /\ UNCHANGED <<appVars, run, quantizer, heuristic, fusion, gateway, proxy, generator>>

\* The recognizer has started.
RecognizerStarted ==
  /\ consultant.rec.state = "starting"
  /\ consultant' = onstart(consultant)
  /\ UNCHANGED <<appVars, run, quantizer, heuristic, fusion, gateway, proxy, generator>>

\* The recognizer reports an error.
RecognizerFailed ==
  /\ consultant.rec.state \in {"starting", "running"}
  /\ consultant' = onerror(consultant)
  /\ UNCHANGED <<appVars, run, quantizer, heuristic, fusion, gateway, proxy, generator>>

\* The recognizer delivers a transcript.
TranscriptArrived ==
  \E transcript \in Transcripts :
    /\ consultant.rec.state = "running"
    /\ consultant.heard < MaxTranscripts
    /\ consultant' = [onresult(consultant, transcript) EXCEPT !.heard = @ + 1]
    /\ UNCHANGED <<appVars, run, quantizer, heuristic, fusion, gateway, proxy, generator>>

\* The recognizer ends: after stop(), after an error, or by itself.
RecognizerEnded ==
  /\ consultant.rec.state \in {"running", "stopping"}
  /\ consultant' = onend(consultant)
  /\ UNCHANGED <<appVars, run, quantizer, heuristic, fusion, gateway, proxy, generator>>

\* generateAssistantText settles.
AssistantSettled ==
  \E reply \in AssistantReplies :
    /\ consultant.requests # <<>>
    /\ consultant' = AfterAssistant(consultant, reply)
    /\ UNCHANGED <<appVars, run, quantizer, heuristic, fusion, gateway, proxy, generator>>

NextVoice ==
  \/ Toggle
  \/ RecognizerStarted
  \/ RecognizerFailed
  \/ TranscriptArrived
  \/ RecognizerEnded
  \/ AssistantSettled

SpecVoice == InitVoice /\ [][NextVoice]_vars

\* ------------------------------------- one call of either service function
\* A call of analyzeStyle, or a call of generateFromGraph.
InitCalls ==
  /\ InitLibrary
  /\ quantizer = Idle /\ heuristic = Idle /\ fusion = Idle /\ proxy = Idle
  /\ generator = Idle /\ consultant = Idle
  /\ \/ gateway = Idle
     \/ \E args \in GatewayCalls, env \in FluxModels :
          gateway = [pc |-> "called", args |-> args, env |-> env]

NextCalls ==
  \/ gateway = Idle /\ StagesOfAnalyze /\ UNCHANGED svcVars
  \/ ImageRequested
  \/ ImageSettled

SpecCalls == InitCalls /\ [][NextCalls]_vars

\* ------------------------------------------------------ the proxy alone
\* The environment of the server: no credential, an empty one, one of two
\* credentials under one of the three names.
Env(a, b, c) == [HF_TOKEN |-> a, HUGGINGFACE_TOKEN |-> b, VITE_HF_TOKEN |-> c]
Environments ==
  { Env(undefined, undefined, undefined),
    Env(JString(""), undefined, JString("")),
    Env(JString("hf_first"), undefined, undefined),
    Env(JString("hf_second"), undefined, undefined),
    Env(JString(""), JString("hf_second"), undefined),
    Env(undefined, undefined, JString("hf_first")),
    Env(JString("hf_first"), JString("hf_second"), undefined) }

Servers == {Production(TRUE), Production(FALSE), Dev}

Methods == {"GET", "POST", "OPTIONS"}

Urls ==
  { "/api/hf/chat/completions", "/api/hf/chat/completions?stream=0",
    "/api/hf/chat/completionsX", "/api/hf/models/foo/bar", "/api/hf/models/foo?",
    "/api/hf/models/", "/api/hf/models", "/api/hf/model/foo",
    "/api/hf/v1/embeddings", "/api/hf/", "/api/hf", "/index.html" }

\* The headers of the client: none, the two that are forwarded, an
\* Authorization of its own.
ClientHeaders ==
  { NoHeaders,
    [h \in {"content-type", "accept"} |->
       IF h = "accept" THEN "image/png" ELSE "application/json"],
    [h \in {"content-type", "authorization"} |->
       IF h = "authorization" THEN "Bearer of-the-client" ELSE "application/json"] }

Requests ==
  { [method |-> m, url |-> u, headers |-> h, body |-> IF m = "POST" THEN "{}" ELSE ""] :
      m \in Methods, u \in Urls, h \in ClientHeaders }

UpstreamReplies ==
  { Rejects,
    Upstream(200, JString("application/json"), "{\"choices\":[]}"),
    Upstream(200, null, "raw"),
    Upstream(401, JString("application/json"), "{\"error\":\"Invalid credentials in Authorization header\"}"),
    Upstream(503, JString(""), "") }

InitProxy ==
  /\ InitLibrary
  /\ quantizer = Idle /\ heuristic = Idle /\ fusion = Idle /\ gateway = Idle
  /\ generator = Idle /\ consultant = Idle
  /\ \E srv \in Servers, env \in Environments, req \in Requests :
       proxy = [pc |-> "received", srv |-> srv, env |-> env, req |-> req]

\* The server handles the request up to its answer or up to the fetch.
RequestHandled ==
  /\ proxy.pc = "received"
  /\ LET out == Serve(proxy.srv, hfTokenOf(proxy.env), proxy.req)
     IN proxy' = [pc |-> IF out.kind = "forward" THEN "forwarded" ELSE "answered",
                  srv |-> proxy.srv, env |-> proxy.env, req |-> proxy.req, out |-> out]
  /\ UNCHANGED <<appVars, run, quantizer, heuristic, fusion, gateway, generator, consultant>>

\* The fetch settles and the server relays the answer.
UpstreamAnswered ==
  \E upstream \in UpstreamReplies :
    /\ proxy.pc = "forwarded"
    /\ proxy' = [pc |-> "relayed", srv |-> proxy.srv, env |-> proxy.env, req |-> proxy.req,
                 sent |-> proxy.out.upstream, reply |-> upstream,
                 out |-> Relay(proxy.srv, upstream)]
    /\ UNCHANGED <<appVars, run, quantizer, heuristic, fusion, gateway, generator, consultant>>

NextProxy ==
  \/ RequestHandled
  \/ UpstreamAnswered

SpecProxy == InitProxy /\ [][NextProxy]_vars

\* ------------------------------------------------------------------ claims
\* The entry of a list with a given id (ids are unique in a list).
Entry(profiles, id) == CHOOSE p \in Range(profiles) : p.id = id

\* The ids in the persisted list; none when nothing was ever written.
PersistedIds == IF persisted = undefined THEN {} ELSE Ids(persisted[1])

\* A step of the editor's Save or Revert on the profile `id`, in session `b`.
EditOf(b, id) == (SaveEdit(b) \/ RevertEdit(b)) /\ activeProfile.id = id

\* C1: a Save or a Revert of a profile raises its version by exactly one, and
\* no other step changes the version of a saved profile.
C1_VersionStepsByOne ==
  [][\A id \in Ids(savedProfiles) \cap Ids(savedProfiles') :
       Entry(savedProfiles', id).version =
         Entry(savedProfiles, id).version + (IF EditOf(AppCfg, id) THEN 1 ELSE 0)]_vars

\* C2: after a Save or a Revert the head of the profile's history is a snapshot
\* of the profile as it was before: its version, and each of the eight data
\* fields, as they were before the step.
C2_SnapshotIsPreChange ==
  [][(SaveEdit(EditorCfg) \/ RevertEdit(EditorCfg)) =>
       /\ Len(activeProfile'.history) > 0
       /\ Head(activeProfile'.history).version = activeProfile.version
       /\ DOMAIN Head(activeProfile'.history).data = DataKeys
       /\ \A k \in DataKeys : Head(activeProfile'.history).data[k] = activeProfile[k]
       /\ Entry(savedProfiles', activeProfile.id) = activeProfile']_vars

\* C2 witness: a revert has been committed, and the snapshot it pushed differs
\* from the values the profile has now.
C2_Witness ==
  /\ activeProfile # null
  /\ Len(activeProfile.history) >= 2
  /\ Head(activeProfile.history).changeLog[1] = "Reverted to v"
  /\ Head(activeProfile.history).data.name # activeProfile.name
  /\ Head(activeProfile.history).data.moods # activeProfile.moods

\* C3: the history of a saved profile only grows at its head: a step leaves it
\* as it is, or puts one snapshot in front of the snapshots it held, which stay
\* unchanged and in the same order.
C3_HistoryAppendOnly ==
  [][\A id \in Ids(savedProfiles) \cap Ids(savedProfiles') :
       LET before == Entry(savedProfiles, id).history
           after == Entry(savedProfiles', id).history
       IN \/ after = before
          \/ Len(after) = Len(before) + 1 /\ Tail(after) = before]_vars

\* C4: an id deleteProfile has removed from the saved list does not come back
\* into the saved list, nor into the persisted list once it is out of it.
C4_DeletedStaysDeleted ==
  [][\A id \in deleted :
       /\ id \notin Ids(savedProfiles) => id \notin Ids(savedProfiles')
       /\ id \notin PersistedIds => id \notin PersistedIds']_vars

\* C5: a profile leaves the saved list, and the persisted list, only by a
\* deleteProfile for its id.
C5_LeavesOnlyByDelete ==
  [][/\ \A id \in Ids(savedProfiles) :
          id \in Ids(savedProfiles') \/ id \in deleted'
     /\ \A id \in PersistedIds :
          id \in PersistedIds' \/ id \in deleted']_vars

\* What a handler leaves in memory when it has run to its end.
CreateCompleted ==
  \E i \in DOMAIN pending, analysis \in AppCfg.analyses :
    LET newProfile == NewProfile(analysis, pending[i].images, nextId + 1, clock)
    IN /\ savedProfiles' = <<newProfile>> \o pending[i].closure
       /\ activeProfile' = newProfile
UpdateCompleted ==
  /\ activeProfile # null /\ activeProfile' # null
  /\ activeProfile'.id = activeProfile.id
  /\ activeProfile'.version = activeProfile.version + 1
  /\ Ids(savedProfiles') = Ids(savedProfiles)
  /\ \A id \in Ids(savedProfiles) :
       Entry(savedProfiles', id) =
         IF id = activeProfile.id THEN activeProfile' ELSE Entry(savedProfiles, id)
DeleteCompleted ==
  \E i \in DOMAIN savedProfiles :
    /\ savedProfiles' = RemoveAt(savedProfiles, i)
    /\ activeProfile' = activeProfile
    /\ viewMode' = IF Len(savedProfiles) = 1 THEN "CREATE" ELSE viewMode

\* C6: when localStorage.setItem throws, nothing escapes the handler, the alert
\* is shown, the saved list and the active profile are those of the completed
\* create, update or delete, and the persisted list is what it was.
C6_WriteFailureIsContained ==
  [][writeFailures' # writeFailures =>
       /\ lastCall' = [alerted |-> TRUE, threw |-> FALSE]
       /\ persisted' = persisted
       /\ CreateCompleted \/ UpdateCompleted \/ DeleteCompleted]_vars

\* C6 witness: a write has failed, memory and storage now differ.
C6_Witness ==
  /\ lastCall.alerted
  /\ persisted # Some(JsonStringify(savedProfiles))

\* The call under study has merged (it stands before or after the embedding).
Merged == run.pc \in {"embedding", "done"}

\* C7: analyzeStyle rejects only when extractDominantPalette did: whatever the
\* collage, the VLM call and the embedding call do, it goes on to its result.
C7_BestEffortNeverRejects ==
  /\ run.pc = "rejected" => run.world.palette # undefined /\ run.world.palette.threw
  /\ run.pc = "done" =>
       /\ run.merged # undefined
       /\ DOMAIN run.merged = StyleKeys

\* C7 witness: the call has resolved although the VLM answered 503 and the
\* embedding fetch rejected.
C7_Witness ==
  /\ run.pc = "done"
  /\ run.world.collage = TRUE
  /\ run.world.vlm = NotOk(503)
  /\ run.world.embed = Rejects

\* Answers used as the other outcome of a stage.
VlmTwins == { NotOk(503), Ok(ChatData(JString(Text(FALSE, FALSE, ObjectOf(FullFields))))) }
EmbedTwins == { Rejects, Ok(JArray(<<JNumber(1), JNumber(2)>>)) }

\* C8: with a collage, the embedding request is sent whatever the VLM call did,
\* the embedding is the one the call would return had the VLM call ended the
\* other way, and the six merged fields are those it would return had the
\* embedding call ended the other way.
C8_StagesFaultIsolated ==
  (run.pc = "done" /\ run.world.collage = TRUE) =>
    /\ EmbedEndpoint \in Range(run.requests)
    /\ \A v \in VlmTwins :
         analyzeStyle([run.world EXCEPT !.vlm = v]).embedding = run.embedding
    /\ \A e \in EmbedTwins :
         LET twin == analyzeStyle([run.world EXCEPT !.embed = e])
         IN \A k \in StyleKeys : twin[k] = run.merged[k]

\* C8 witness: the VLM call failed and the embedding is there; the fields are
\* the fallbacks.
C8_Witness ==
  /\ run.pc = "done"
  /\ run.world.collage = TRUE
  /\ run.world.vlm = NotOk(503)
  /\ run.embedding = Some(<<1, 3>>)
  /\ run.merged.artisticStyle = "Custom"

\* What the VLM supplied for a key: the value under that key of the object its
\* answer parses to; undefined when there was no answer to parse.
Supplied(key) ==
  LET reply == run.world.vlm
      content == Get(Get(Index(Get(reply.data, "choices"), 0), "message"), "content")
  IN IF run.world.collage = TRUE /\ reply.fetch = "resolves" /\ reply.ok
        /\ IsValidJson(reply.data) /\ IsString(content) /\ ~IsBlank(content.str)
     THEN Get(safeJsonParse(content.str), key)
     ELSE undefined

\* A colour string as the code accepts it: white space, an optional 0x or 0X,
\* an optional #, six hex digits, white space. The set holds the six digits.
ColourDigits(v) ==
  IF ~IsString(v) THEN {}
  ELSE { SubSeq(v.str, j - 5, j) :
           j \in { j \in 6..Len(v.str) :
                     /\ IsSixHex(SubSeq(v.str, j - 5, j))
                     /\ \A n \in (j + 1)..Len(v.str) : SubSeq(v.str, n, n) \in WhiteSpace
                     /\ \E i \in 0..(j - 6) :
                          /\ \A n \in 1..i : SubSeq(v.str, n, n) \in WhiteSpace
                          /\ SubSeq(v.str, i + 1, j - 6) \in
                               {"", "0x", "0X", "#", "0x#", "0X#"} } }

RECURSIVE KeptColours(_)
KeptColours(arr) ==
  IF arr = <<>> THEN <<>>
  ELSE (IF ColourDigits(Head(arr)) = {} THEN <<>>
        ELSE <<"#" \o toLowerCase(CHOOSE d \in ColourDigits(Head(arr)) : TRUE)>>)
       \o KeptColours(Tail(arr))

ExpectedPalette ==
  IF IsArray(Supplied("colorPalette")) /\ KeptColours(Supplied("colorPalette").arr) # <<>>
  THEN KeptColours(Supplied("colorPalette").arr)
  ELSE run.palette

ExpectedMoods ==
  LET strings == IF IsArray(Supplied("moodKeywords"))
                 THEN SelectSeq(Supplied("moodKeywords").arr, IsString) ELSE <<>>
      limit == IF Len(strings) > MoodKeywordLimit THEN MoodKeywordLimit ELSE Len(strings)
  IN IF strings # <<>> THEN [i \in 1..limit |-> strings[i].str]
     ELSE inferMoodKeywords(run.world.palette.value)

ExpectedString(key, fallback) ==
  IF IsString(Supplied(key)) /\ Supplied(key).str # ""
  THEN Supplied(key).str ELSE fallback

\* C9: each merged field is the value the VLM supplied when that value is there,
\* of the right type and not empty (a string; an array with a valid colour; an
\* array with a string), and its fallback otherwise, whatever the other keys
\* hold: the quantizer palette, the heuristic moods, "Custom",
\* "Reference-guided", "Custom Style " and the date, the generic sentence.
C9_MergeRulePerField ==
  Merged =>
    /\ run.merged.colorPalette = ExpectedPalette
    /\ run.merged.moodKeywords = ExpectedMoods
    /\ run.merged.artisticStyle = ExpectedString("artisticStyle", "Custom")
    /\ run.merged.visualTechnique = ExpectedString("visualTechnique", "Reference-guided")
    /\ run.merged.suggestedName =
         ExpectedString("suggestedName", "Custom Style " \o run.world.today)
    /\ run.merged.reasoning =
         ExpectedString("reasoning",
           "Extracted a dominant palette and inferred basic mood from reference images.")

\* C9 witness: one answer, some keys taken from it and the others on their
\* fallback (artisticStyle a number, visualTechnique "", colorPalette without a
\* valid colour).
C9_Witness ==
  /\ run.pc = "done"
  /\ Supplied("artisticStyle") = JNumber(7)
  /\ Supplied("visualTechnique") = JString("")
  /\ run.merged.artisticStyle = "Custom"
  /\ run.merged.visualTechnique = "Reference-guided"
  /\ run.merged.suggestedName = "Edo Waves"
  /\ run.merged.moodKeywords = <<"calm", "bold">>
  /\ Supplied("colorPalette") = JArray(<<JString("zzzzzz")>>)
  /\ run.merged.colorPalette = run.palette
  /\ run.palette # <<>>

\* A colour as the claim words it: six hex digits once one optional prefix,
\* 0x (either case) or #, is stripped.
StatedValid(v) ==
  /\ IsString(v)
  /\ \/ IsSixHex(v.str)
     \/ Len(v.str) = 8 /\ toLowerCase(SubSeq(v.str, 1, 2)) = "0x"
          /\ IsSixHex(SubSeq(v.str, 3, 8))
     \/ Len(v.str) = 7 /\ StartsWith(v.str, "#") /\ IsSixHex(Tail(v.str))

\* C10 as stated: the merged palette is the supplied list without the entries
\* that are not six hex digits behind an optional 0x or #, in their order (each
\* written as # and its six digits in lowercase), when that list is not empty,
\* and P0 otherwise.
C10_AsStated ==
  Merged =>
    LET supplied == IF IsArray(Supplied("colorPalette"))
                    THEN SelectSeq(Supplied("colorPalette").arr, StatedValid) ELSE <<>>
        kept == [i \in 1..Len(supplied) |->
                   "#" \o toLowerCase(SubSeq(supplied[i].str, Len(supplied[i].str) - 5,
                                             Len(supplied[i].str)))]
    IN run.merged.colorPalette = IF kept # <<>> THEN kept ELSE run.palette

\* C10 amended: a supplied colour is kept exactly when it is a string that,
\* trimmed of white space and stripped of an optional 0x (either case) and then
\* of an optional #, is six hex digits; it enters the palette as # and the six
\* digits in lowercase; the merged palette is the kept colours in their order
\* when there is one, and P0 otherwise.
C10_PaletteMerge ==
  Merged => run.merged.colorPalette = ExpectedPalette

\* C10 witness: four valid colours and "zzzzzz" supplied, the four are the palette.
C10_Witness ==
  /\ run.pc = "done"
  /\ IsArray(Supplied("colorPalette"))
  /\ Len(Supplied("colorPalette").arr) = 5
  /\ run.merged.colorPalette = <<"#111111", "#222222", "#333333", "#444444">>
  /\ run.palette # <<>>


\* A palette as the data model words it: at most PaletteCount entries, each "#"
\* and six lowercase hex digits, none twice.
IsHexColor(c) ==
  /\ Len(c) = 7
  /\ StartsWith(c, "#")
  /\ IsSixHex(Tail(c))
  /\ toLowerCase(c) = c

IsPalette(p) ==
  /\ Len(p) <= PaletteCount
  /\ \A i \in 1..Len(p) : IsHexColor(p[i])
  /\ \A i, j \in 1..Len(p) : p[i] = p[j] => i = j

\* C11: the colorPalette analyzeStyle returns is at most five entries, each a
\* lowercase #-prefixed six-digit hex string, with no entry twice, whether it
\* is the quantizer's palette or the one the VLM answer supplied.
C11_PaletteWellFormed ==
  Merged => IsPalette(run.merged.colorPalette)

\* The lowercase #rrggbb shape of the entries of the returned palette alone.
EntriesAreHexColors ==
  Merged => \A i \in 1..Len(run.merged.colorPalette) : IsHexColor(run.merged.colorPalette[i])

\* The bound on the length alone.
AtMostPaletteCount ==
  Merged => Len(run.merged.colorPalette) <= PaletteCount

\* The sampled pixels of the call under study, each as <<file, index>>: every
\* PixelStride-th pixel of a readable file, its alpha at least AlphaFloor.
Sampled ==
  { s \in UNION { {f} \X (1..Len(quantizer.files[f].data)) :
                    f \in {f \in 1..Len(quantizer.files) :
                             quantizer.files[f].load = "ok" /\ quantizer.files[f].ctx} } :
      /\ (s[2] - 1) % PixelStride = 0
      /\ quantizer.files[s[1]].data[s[2]].a >= AlphaFloor }

\* The centre of the bucket of a channel value, in two hex digits.
CentreOf(v) == padStart2(toString16((v \div 16) * 16 + 8))

\* The centre of the bucket of a sampled pixel, as #rrggbb.
BucketOf(s) ==
  LET px == quantizer.files[s[1]].data[s[2]]
  IN "#" \o CentreOf(px.r) \o CentreOf(px.g) \o CentreOf(px.b)

Buckets == { BucketOf(s) : s \in Sampled }
CountOf(c) == Cardinality({ s \in Sampled : BucketOf(s) = c })

\* C12: extractDominantPalette(images, k) returns at most k entries, each a
\* lowercase #rrggbb string that is the centre of a bucket of the combined
\* histogram, none twice, in non-increasing order of the sampled-pixel count of
\* their buckets; fewer than k only when the histogram has fewer than k buckets.
C12_DominantPalette ==
  (quantizer.pc = "settled" /\ ~quantizer.result.threw) =>
    LET colors == quantizer.result.value
    IN /\ Len(colors) <= quantizer.count
       /\ \A i \in 1..Len(colors) : IsHexColor(colors[i]) /\ colors[i] \in Buckets
       /\ \A i, j \in 1..Len(colors) : colors[i] = colors[j] => i = j
       /\ \A i, j \in 1..Len(colors) : i < j => CountOf(colors[i]) >= CountOf(colors[j])
       /\ Len(colors) < quantizer.count => Cardinality(Buckets) < quantizer.count

\* C12 witness: two files, more buckets than asked for, the counts differ.
C12_Witness ==
  /\ quantizer.pc = "settled"
  /\ ~quantizer.result.threw
  /\ Len(quantizer.files) = 2
  /\ quantizer.count = 2
  /\ Cardinality(Buckets) > 2
  /\ Len(quantizer.result.value) = 2
  /\ CountOf(quantizer.result.value[1]) > CountOf(quantizer.result.value[2])
  /\ CountOf(quantizer.result.value[2]) > 1

\* C13: inferMoodKeywords returns exactly three entries; they are
\* "balanced", "clean", "modern" exactly when the palette is empty; for a
\* palette that is not empty they are a brightness tag (moody, balanced, airy),
\* a chroma tag (vibrant, muted) and "stylized", in this order.
C13_MoodKeywords ==
  heuristic.pc = "returned" =>
    /\ Len(heuristic.result) = 3
    /\ heuristic.result = <<"balanced", "clean", "modern">> <=> heuristic.palette = <<>>
    /\ heuristic.palette # <<>> =>
         /\ heuristic.result[1] \in {"moody", "balanced", "airy"}
         /\ heuristic.result[2] \in {"vibrant", "muted"}
         /\ heuristic.result[3] = "stylized"

\* C13 witness: a light palette of one saturated and one pale colour.
C13_Witness ==
  /\ heuristic.pc = "returned"
  /\ heuristic.palette = <<"#e81818", "#f8f8f8">>
  /\ heuristic.result = <<"balanced", "vibrant", "stylized">>

\* The intensity of the call under study, clamped into [0, 1].
Clamped ==
  IF fusion.intensity = NaN THEN NaN
  ELSE IF fusion.intensity.milli < 0 THEN Milli(0)
  ELSE IF fusion.intensity.milli > 1000 THEN Milli(1000) ELSE fusion.intensity

\* C14: for every prompt p, every style and every intensity whose clamped
\* value is below 0.15, negative ones included, performReasoning returns p
\* character for character.
C14_NoOpBelowThreshold ==
  (fusion.pc = "returned" /\ Clamped # NaN /\ Clamped.milli < 150) =>
    fusion.result = fusion.userPrompt

\* C14 witness: a prompt with white space at both ends, a full style, a
\* negative intensity.
C14_Witness ==
  /\ fusion.pc = "returned"
  /\ fusion.intensity = Milli(-200)
  /\ fusion.userPrompt = "draw a cat \n"
  /\ Get(fusion.styleData, "visualTechnique") = JString("ink wash")
  /\ fusion.result = "draw a cat \n"

\* The parts of the style the hint is made of: the profile's field, or the
\* analysis's field when the profile's is missing.
SourceOf(key, other) ==
  IF Truthy(Get(fusion.styleData, key)) THEN Get(fusion.styleData, key)
  ELSE Get(fusion.styleData, other)

TechniquePart ==
  LET t == Get(fusion.styleData, "visualTechnique")
  IN IF IsString(t) /\ t.str # "" THEN <<"Technique: " \o t.str \o ".">> ELSE <<>>

MoodPart ==
  LET m == SourceOf("moods", "moodKeywords")
  IN IF IsArray(m) /\ m.arr # <<>> THEN <<"Mood: " \o Join(m.arr, ", ") \o ".">> ELSE <<>>

PalettePart ==
  LET c == SourceOf("palette", "colorPalette")
  IN IF IsArray(c) /\ c.arr # <<>>
     THEN <<"Palette: " \o Join(SubSeq(c.arr, 1, MathMin(5, Len(c.arr))), ", ") \o ".">>
     ELSE <<>>

\* The hint clause: the parts whose source is not empty, in their order.
HintClause == Join(Strings(TechniquePart \o MoodPart \o PalettePart).arr, " ")

\* The guidance line of the call under study.
GuidanceLine ==
  "Style guidance ("
    \o (IF Clamped.milli >= 800 THEN "strict"
        ELSE IF Clamped.milli >= 400 THEN "balanced" ELSE "subtle")
    \o ", " \o Decimal((Clamped.milli + 5) \div 10) \o "%): " \o HintClause

Fused == fusion.pc = "returned" /\ Clamped # NaN /\ Clamped.milli >= 150

\* C15 as stated: at a clamped intensity of 0.15 or more the result is p,
\* unaltered, followed by the guidance line (white space between the two and
\* at the end of the line is not counted).
C15_AsStated ==
  Fused =>
    /\ StartsWith(fusion.result, fusion.userPrompt)
    /\ trim(SubSeq(fusion.result, Len(fusion.userPrompt) + 1, Len(fusion.result)))
         = trim(GuidanceLine)

\* C15 amended: at a clamped intensity of 0.15 or more the result is p, an
\* empty line and the guidance line `Style guidance (<strength>, <percent>%):
\* <hint clause>`, the whole trimmed of white space at both ends: white space
\* at the start of p is dropped, and so is the blank behind the colon when the
\* hint clause is empty. Strength, percentage and hint clause are as stated.
C15_GuidanceLine ==
  Fused => fusion.result = trim(fusion.userPrompt \o "\n\n" \o GuidanceLine)

\* C15 witness: the example of the specification, strict at 90%.
C15_Witness ==
  /\ fusion.pc = "returned"
  /\ fusion.intensity = Milli(900)
  /\ fusion.result = "draw a cat\n\nStyle guidance (strict, 90%): "
                       \o "Technique: ink wash. Mood: calm. Palette: #111111."

\* The request of the call under study has been sent.
Requested == gateway.pc \in {"requested", "settled"}

\* The size the claim states for a base.
StatedSize(aspectRatio, base) ==
  CASE aspectRatio = "1:1" -> <<base, base>>
    [] aspectRatio = "3:4" -> <<(3 * base) \div 4, base>>
    [] aspectRatio = "4:3" -> <<base, (3 * base) \div 4>>
    [] aspectRatio = "16:9" -> <<base, (9 * base) \div 16>>

\* C16: the width and height in the payload depend on aspect ratio and
\* resolution alone: base 1024 for "1K", 1536 for "2K" and for "4K"; base x
\* base, 3/4 base x base, base x 3/4 base, base x 9/16 base, each division
\* exact, the larger side the base.
C16_TargetSize ==
  Requested =>
    LET base == IF gateway.args.resolution = "1K" THEN 1024 ELSE 1536
        sent == gateway.request.payload.parameters
        stated == StatedSize(gateway.args.aspectRatio, base)
    IN /\ <<sent.width, sent.height>> = stated
       /\ (3 * base) % 4 = 0 /\ (9 * base) % 16 = 0
       /\ MathMax(sent.width, sent.height) = base
       /\ gateway.request.body =
            "{\"inputs\":\"" \o EscapeJson(gateway.args.fusedPrompt)
              \o "\",\"parameters\":{\"width\":" \o Decimal(stated[1])
              \o ",\"height\":" \o Decimal(stated[2])
              \o "},\"options\":{\"wait_for_model\":true}}"

\* C16 witness: "4:3" at "4K" is sent as 1536 x 1152.
C16_Witness ==
  /\ Requested
  /\ gateway.args.aspectRatio = "4:3"
  /\ gateway.args.resolution = "4K"
  /\ gateway.request.payload.parameters = [width |-> 1536, height |-> 1152]

\* str.includes(part)
RECURSIVE Includes(_, _)
Includes(str, part) ==
  IF Len(str) < Len(part) THEN FALSE
  ELSE StartsWith(str, part) \/ Includes(Tail(str), part)

\* C17: a call with reference or input images sends a request whose body
\* carries every one of them, so that it differs from the request of the same
\* call without the images.
C17_ImagesAreSent ==
  Requested =>
    /\ \A i \in 1..Len(gateway.args.referenceImages) :
         Includes(gateway.request.body, gateway.args.referenceImages[i])
    /\ \A i \in 1..Len(gateway.args.inputImages) :
         Includes(gateway.request.body, gateway.args.inputImages[i])
    /\ (gateway.args.referenceImages # <<>> \/ gateway.args.inputImages # <<>>) =>
         gateway.request # ImageRequest(gateway.env, gateway.args.fusedPrompt,
                                        gateway.args.aspectRatio, gateway.args.resolution)

\* The request of the run under study has been handled; it is no preflight;
\* it lies under /api/hf; its path, without the query.
Handled == proxy.pc \in {"answered", "forwarded", "relayed"}
NoPreflight == proxy.req.method # "OPTIONS"
UnderProxy == StartsWith(proxy.req.url, "/api/hf/")
Path ==
  IF \E i \in 1..Len(proxy.req.url) : SubSeq(proxy.req.url, i, i) = "?"
  THEN SubSeq(proxy.req.url, 1,
              (CHOOSE i \in 1..Len(proxy.req.url) :
                 /\ SubSeq(proxy.req.url, i, i) = "?"
                 /\ \A j \in 1..(i - 1) : SubSeq(proxy.req.url, j, j) # "?") - 1)
  ELSE proxy.req.url

\* The configured credential: the first of the three variables that is set
\* and not empty; "" when there is none.
Credential ==
  IF IsString(proxy.env.HF_TOKEN) /\ proxy.env.HF_TOKEN.str # ""
  THEN proxy.env.HF_TOKEN.str
  ELSE IF IsString(proxy.env.HUGGINGFACE_TOKEN) /\ proxy.env.HUGGINGFACE_TOKEN.str # ""
  THEN proxy.env.HUGGINGFACE_TOKEN.str
  ELSE IF IsString(proxy.env.VITE_HF_TOKEN) THEN proxy.env.VITE_HF_TOKEN.str ELSE ""

\* The request sent to the provider, once the run has forwarded.
ForwardedOn == proxy.pc \in {"forwarded", "relayed"}
SentUpstream == IF proxy.pc = "forwarded" THEN proxy.out.upstream ELSE proxy.sent

\* The answer is a local one with this status and a JSON error body.
AnsweredWithError(status) ==
  /\ proxy.pc = "answered"
  /\ proxy.out.kind = "respond"
  /\ proxy.out.response.status = status
  /\ "Content-Type" \in DOMAIN proxy.out.response.headers
  /\ proxy.out.response.headers["Content-Type"] = "application/json"
  /\ StartsWith(proxy.out.response.body, "{\"error\":\"")
  /\ SubSeq(proxy.out.response.body, Len(proxy.out.response.body) - 1,
            Len(proxy.out.response.body)) = "\"}"

\* The two routes as the claim words them, and as prefixes of the path.
StatedRoute ==
  \/ Path = "/api/hf/chat/completions"
  \/ StartsWith(Path, "/api/hf/models/") /\ Len(Path) > Len("/api/hf/models/")
RoutePrefix ==
  \/ StartsWith(Path, "/api/hf/chat/completions")
  \/ StartsWith(Path, "/api/hf/models/")

C19_CredentialGate ==
  /\ (Handled /\ NoPreflight /\ UnderProxy /\ Credential = "") => AnsweredWithError(500)
  /\ ForwardedOn =>
       /\ Credential # ""
       /\ "Authorization" \in DOMAIN SentUpstream.headers
       /\ SentUpstream.headers["Authorization"] = "Bearer " \o Credential
       /\ "authorization" \in DOMAIN proxy.req.headers =>
            SentUpstream.headers["Authorization"] # proxy.req.headers["authorization"]
       /\ DOMAIN SentUpstream.headers \subseteq {"Authorization", "Content-Type", "Accept"}

\* C19 witness: a request with an Authorization of its own has been forwarded
\* with the credential of the second variable, the first one being empty.
C19_Witness ==
  /\ proxy.pc = "forwarded"
  /\ proxy.env = Env(JString(""), JString("hf_second"), undefined)
  /\ "authorization" \in DOMAIN proxy.req.headers
  /\ proxy.out.upstream.headers["Authorization"] = "Bearer hf_second"

\* What the client has seen of the run so far, had the server been configured
\* with the environment `env`.
SeenUnder(env) ==
  IF proxy.pc = "relayed" THEN Relay(proxy.srv, proxy.reply)
  ELSE LET out == Serve(proxy.srv, hfTokenOf(env), proxy.req)
       IN IF out.kind = "forward" THEN [kind |-> "forward"] ELSE out
Seen == IF proxy.pc = "forwarded" THEN [kind |-> "forward"] ELSE proxy.out

\* The credential shows nowhere in a response.
Hidden(response) ==
  /\ ~Includes(response.body, Credential)
  /\ \A h \in DOMAIN response.headers : ~Includes(response.headers[h], Credential)

Answered == proxy.pc \in {"answered", "relayed"} /\ proxy.out.kind = "respond"
AllowsAnyOrigin(response) ==
  /\ "Access-Control-Allow-Origin" \in DOMAIN response.headers
  /\ response.headers["Access-Control-Allow-Origin"] = "*"

\* C21: every answer of either server to a request under /api/hf/ carries
\* Access-Control-Allow-Origin: *; a preflight is answered 204 with the CORS
\* headers and no body and without the provider being contacted, credential
\* or not; a relayed answer has the status and the content type of the
\* provider's.
C21_CorsOnEveryResponse ==
  (UnderProxy /\ Handled) =>
    /\ Answered => AllowsAnyOrigin(proxy.out.response)
    /\ ~NoPreflight =>
         /\ proxy.pc = "answered"
         /\ proxy.out = Respond(204, Cors, "")
    /\ (proxy.pc = "relayed" /\ proxy.reply # Rejects /\ Answered) =>
         /\ proxy.out.response.status = proxy.reply.status
         /\ proxy.out.response.body = proxy.reply.body
         /\ IF Truthy(proxy.reply.contentType)
            THEN /\ "Content-Type" \in DOMAIN proxy.out.response.headers
                 /\ proxy.out.response.headers["Content-Type"] = proxy.reply.contentType.str
            ELSE "Content-Type" \notin DOMAIN proxy.out.response.headers

\* The same for the dev server alone, and for the production server without
\* its local error answers.
CorsOfDevServer == proxy.srv.kind = "dev" => C21_CorsOnEveryResponse
CorsButLocalErrors ==
  (Answered /\ proxy.out.response.status \in {404, 500} /\ proxy.pc = "answered")
  \/ (proxy.pc = "relayed" /\ proxy.reply = Rejects)
  \/ C21_CorsOnEveryResponse

\* The requests in flight after the first n events of a call; the place of
\* the first event equal to e, 0 when there is none.
InFlight(events, n) ==
  { ep \in {VlmEndpoint, EmbedEndpoint} :
      Cardinality({i \in 1..n : events[i] = Sent(ep)})
        > Cardinality({i \in 1..n : events[i] = Settled(ep)}) }
FirstAt(events, e) ==
  IF \E i \in 1..Len(events) : events[i] = e
  THEN CHOOSE i \in 1..Len(events) : events[i] = e /\ \A j \in 1..(i - 1) : events[j] # e
  ELSE 0
IsBefore(events, a, b) == FirstAt(events, a) > 0 /\ FirstAt(events, a) < FirstAt(events, b)

\* C22: in one call of analyzeStyle the two requests are never in flight
\* together, the embedding request is sent only after the VLM request has
\* settled, and no request is sent before the collage build has settled.
C22_StagesSequential ==
  /\ \A n \in 0..Len(run.events) : Cardinality(InFlight(run.events, n)) <= 1
  /\ FirstAt(run.events, Sent(EmbedEndpoint)) > 0 =>
       /\ IsBefore(run.events, Sent(VlmEndpoint), Settled(VlmEndpoint))
       /\ IsBefore(run.events, Settled(VlmEndpoint), Sent(EmbedEndpoint))
  /\ \A i \in 1..Len(run.events) :
       run.events[i].kind = "sent" =>
         \E j \in 1..(i - 1) : run.events[j] = Settled("createReferenceCollage")

\* The VLM request has failed and the embedding request is in flight.
C22_Witness ==
  /\ run.pc = "embedding"
  /\ run.world.vlm = Rejects
  /\ InFlight(run.events, Len(run.events)) = {EmbedEndpoint}
  /\ run.events[Len(run.events)] = Sent(EmbedEndpoint)

\* How often a call of analyzeStyle has sent a request to an endpoint.
TimesSent(endpoint) ==
  Cardinality({i \in 1..Len(run.events) : run.events[i] = Sent(endpoint)})

\* The hint of generateFromGraph for a model that cannot be reached.
AccessHint == "(Check model access on Hugging Face"

\* C23: no retries. A call of analyzeStyle sends at most one request to the
\* VLM service and at most one to the embedding service; a call of
\* generateFromGraph that has reached its fetch has sent exactly one request,
\* whatever the answer; an answer that is no success makes the call throw an
\* error that names the HTTP status, with the access hint exactly for 403 and
\* 404.
C23_NoRetries ==
  /\ TimesSent(VlmEndpoint) <= 1
  /\ TimesSent(EmbedEndpoint) <= 1
  /\ Len(run.requests) <= 2
  /\ run.pc = "done" => TimesSent(VlmEndpoint) = TimesSent(EmbedEndpoint)
  /\ Requested =>
       /\ Len(gateway.requests) = 1
       /\ gateway.requests[1] = gateway.request
  /\ gateway.pc = "settled" =>
       /\ gateway.reply # Rejects /\ ~gateway.reply.ok =>
            /\ gateway.result.threw
            /\ StartsWith(gateway.result.message,
                          "HF Inference error (" \o Decimal(gateway.reply.status) \o "):")
            /\ Includes(gateway.result.message, AccessHint)
                 <=> gateway.reply.status \in {403, 404}
       /\ gateway.reply = Rejects => gateway.result.threw

\* A call of generateFromGraph answered 403 has thrown after its one request.
C23_Witness ==
  /\ gateway.pc = "settled"
  /\ gateway.reply = Failed(403, "Forbidden", undefined)
  /\ Len(gateway.requests) = 1
  /\ gateway.result.threw
  /\ gateway.result.message = "HF Inference error (403): Forbidden (Check model access on Hugging Face or set VITE_HF_FLUX_MODEL to an accessible model such as black-forest-labs/FLUX.1-dev.)"

\* A call of analyzeStyle whose two requests both failed has returned.
RequestsFailedOnce ==
  /\ run.pc = "done"
  /\ run.world.vlm = NotOk(503)
  /\ run.world.embed = Rejects
  /\ TimesSent(VlmEndpoint) = 1 /\ TimesSent(EmbedEndpoint) = 1

\* C24: the two services are contacted only when there is a collage. A call
\* whose collage build failed sends no request, returns an undefined
\* embedding, the palette of the quantizer, the moods of the heuristic and
\* the defaults of the four strings.
C24_NoCollageNoRequests ==
  /\ (run.requests # <<>> \/ \E i \in 1..Len(run.events) : run.events[i].kind = "sent")
       => run.world.collage = TRUE
  /\ (run.pc = "done" /\ run.world.collage = FALSE) =>
       /\ run.requests = <<>>
       /\ TimesSent(VlmEndpoint) = 0 /\ TimesSent(EmbedEndpoint) = 0
       /\ ResultOf(run) =
            [embedding |-> undefined,
             colorPalette |-> run.world.palette.value,
             moodKeywords |-> inferMoodKeywords(run.world.palette.value),
             suggestedName |-> "Custom Style " \o run.world.today,
             artisticStyle |-> "Custom",
             visualTechnique |-> "Reference-guided",
             reasoning |-> "Extracted a dominant palette and inferred basic mood from reference images."]

\* A call without a collage has returned the palette of the quantizer.
C24_Witness ==
  /\ run.pc = "done"
  /\ run.world.collage = FALSE
  /\ run.world.palette.value # <<>>
  /\ ResultOf(run).colorPalette = run.world.palette.value
  /\ ResultOf(run).embedding = undefined
  /\ run.requests = <<>>

\* The labels of analyzeStyle, in the order of the code (fluxService.ts:344,
\* 355, 374), and the labels among the events of the call.
ProgressLabels ==
  << "Pre-processing: Normalizing inputs...",
     "Feature Extraction: Analyzing visual DNA...",
     "Vectorization: Creating style embedding..." >>
RECURSIVE LabelsOf(_)
LabelsOf(events) ==
  IF events = <<>> THEN <<>>
  ELSE IF Head(events).kind = "label"
  THEN <<Head(events).what>> \o LabelsOf(Tail(events))
  ELSE LabelsOf(Tail(events))

\* C25: a call of analyzeStyle that returns has told onProgress exactly the
\* three labels, in order, the first before the palette extraction starts,
\* the second before the VLM request, the third before the embedding
\* request, whatever the collage, VLM and embedding stages came to.
C25_ProgressLabels ==
  /\ run.progress = LabelsOf(run.events)
  /\ run.progress = SubSeq(ProgressLabels, 1, Len(run.progress))
  /\ run.pc = "done" =>
       /\ run.events[Len(run.events)] = Returned
       /\ run.progress = ProgressLabels
  /\ \A i \in 1..Len(run.events) :
       /\ run.events[i] = Started("extractDominantPalette") =>
            \E j \in 1..(i - 1) : run.events[j] = Label(ProgressLabels[1])
       /\ run.events[i] = Sent(VlmEndpoint) =>
            /\ \E j \in 1..(i - 1) : run.events[j] = Label(ProgressLabels[2])
            /\ \A j \in 1..(i - 1) : run.events[j] # Label(ProgressLabels[3])
       /\ run.events[i] = Sent(EmbedEndpoint) =>
            \E j \in 1..(i - 1) : run.events[j] = Label(ProgressLabels[3])

\* A call whose collage build failed has returned after its three labels.
C25_Witness ==
  /\ run.pc = "done"
  /\ run.world.collage = FALSE
  /\ run.progress = ProgressLabels
  /\ LabelsOf(run.events) = ProgressLabels

\* A call whose stages all succeeded has returned after the same labels.
LabelsOfFullRun ==
  /\ run.pc = "done"
  /\ run.world.collage = TRUE
  /\ run.embedding # undefined
  /\ run.vlm # EmptyVlm
  /\ run.progress = ProgressLabels

\* The fields a revert restores, as the claim lists them.
RestoredKeys == {"name", "description", "visualTechnique", "palette", "moods",
                 "referenceImages"}

\* handleRevert of profile p to snapshot s gives the fields of s.data and
\* keeps id and createdAt; a second handleRevert, to the snapshot the first
\* one pushed, gives back the fields of p, two versions on.
RevertRoundTrip(p, s, now) ==
  LET q == handleRevert(p, s, now)
      r == handleRevert(q, Head(q.history), now + 1)
  IN /\ \A k \in RestoredKeys : q[k] = s.data[k]
     /\ q.id = p.id /\ q.createdAt = p.createdAt
     /\ q.version = p.version + 1
     /\ \A k \in RestoredKeys : r[k] = p[k]
     /\ r.id = p.id /\ r.createdAt = p.createdAt
     /\ r.version = p.version + 2

\* C26: a revert restores the snapshot exactly and can itself be undone. On
\* every Revert step of the editor the profile takes name, description,
\* visualTechnique, palette, moods and referenceImages from the chosen
\* snapshot and keeps id and createdAt; and for every profile the editor can
\* hold and every snapshot of its history, reverting to the snapshot and then
\* to the new head of the history gives back those fields as they were, the
\* version two higher.
C26_RevertRestores ==
  /\ [](activeProfile # null =>
          \A i \in DOMAIN activeProfile.history :
            RevertRoundTrip(activeProfile, activeProfile.history[i], clock))
  /\ [][RevertEdit(EditorCfg) =>
          /\ activeProfile'.id = activeProfile.id
          /\ activeProfile'.createdAt = activeProfile.createdAt
          /\ \E i \in DOMAIN activeProfile.history :
               /\ Head(activeProfile'.history).changeLog
                    = <<"Reverted to v", activeProfile.history[i].version>>
               /\ \A k \in RestoredKeys :
                    activeProfile'[k] = activeProfile.history[i].data[k]]_vars

\* Two reverts in a row, the second to the snapshot the first one pushed: the
\* profile has the name it had before the first, which the first had changed.
C26_Witness ==
  /\ activeProfile # null
  /\ Len(activeProfile.history) >= 3
  /\ activeProfile.history[1].changeLog = <<"Reverted to v", activeProfile.history[2].version>>
  /\ activeProfile.history[2].changeLog[1] = "Reverted to v"
  /\ activeProfile.version = activeProfile.history[2].version + 2
  /\ \A k \in RestoredKeys : activeProfile[k] = activeProfile.history[2].data[k]
  /\ activeProfile.name # activeProfile.history[1].data.name

\* The history of a profile counts down from its version: as many snapshots
\* as version - 1, the head of version - 1, the last of version 1.
CountsDown(p) ==
  /\ Len(p.history) = p.version - 1
  /\ \A i \in DOMAIN p.history : p.history[i].version = p.version - i

\* C27: a profile is created at version 1 with an empty history, and after
\* any sequence of edits and reverts its history has version - 1 snapshots
\* whose versions count down from version - 1 at the head to 1 at the end;
\* in the editor's profile, in the saved list and in the persisted list.
C27_HistoryCountsDown ==
  /\ \A analysis \in SampleAnalyses :
       /\ NewProfile(analysis, SampleImages, 1, 0).version = 1
       /\ NewProfile(analysis, SampleImages, 1, 0).history = <<>>
  /\ activeProfile # null => CountsDown(activeProfile)
  /\ \A i \in DOMAIN savedProfiles : CountsDown(savedProfiles[i])
  /\ persisted # undefined => \A i \in DOMAIN persisted[1] : CountsDown(persisted[1][i])

\* A save, a revert to the first version and a save again.
C27_Witness ==
  /\ activeProfile # null
  /\ activeProfile.version = 4
  /\ Len(activeProfile.history) = 3
  /\ activeProfile.history[1].changeLog = <<"Updated parameters manually">>
  /\ activeProfile.history[2].changeLog = <<"Reverted to v", 1>>
  /\ activeProfile.history[3].version = 1
  /\ savedProfiles = <<activeProfile>>

\* C28: in the Generator at most one workflow run is in progress at any
\* time, isProcessing is true exactly while a run is in flight, and every
\* styled image that was generated has been passed to onImageGenerated once.
C28_SingleRun ==
  /\ Len(generator.runs) <= 1
  /\ generator.isProcessing <=> generator.runs # <<>>
  /\ generator.delivered = generator.generated
  /\ \A i, j \in DOMAIN generator.delivered :
       generator.delivered[i] = generator.delivered[j] => i = j

\* The parts of C28 on their own: the flag against the runs in flight, and
\* the images passed on.
ProcessingWhileInFlight == generator.isProcessing <=> generator.runs # <<>>
DeliveredOnce ==
  /\ generator.delivered = generator.generated
  /\ \A i, j \in DOMAIN generator.delivered :
       generator.delivered[i] = generator.delivered[j] => i = j

\* The messages of one role in a chat history.
OfRole(chat, role) == {i \in DOMAIN chat : chat[i].role = role}

\* C29: the voice consultant has at most one assistant request in flight. A
\* transcript that arrives during a request changes neither the chat history
\* nor the requests; an accepted transcript puts its user message into the
\* chat history before the reply, and gets at most one reply; the busy flag
\* is set exactly while a request is outstanding, so a transcript that
\* arrives after the request has settled is accepted.
C29_OneRequestInFlight ==
  /\ [](/\ Len(consultant.requests) <= 1
        /\ consultant.isBusy <=> consultant.requests # <<>>
        /\ \A n \in 0..Len(consultant.chatHistory) :
             Cardinality(OfRole(SubSeq(consultant.chatHistory, 1, n), "model"))
               <= Cardinality(OfRole(SubSeq(consultant.chatHistory, 1, n), "user"))
        /\ Cardinality(OfRole(consultant.chatHistory, "model")) + Len(consultant.requests)
             <= Cardinality(OfRole(consultant.chatHistory, "user")))
  /\ [][TranscriptArrived =>
          IF consultant.requests # <<>>
          THEN /\ consultant'.chatHistory = consultant.chatHistory
               /\ consultant'.requests = consultant.requests
          ELSE \/ /\ consultant'.chatHistory = consultant.chatHistory
                  /\ consultant'.requests = <<>>
               \/ /\ Len(consultant'.chatHistory) = Len(consultant.chatHistory) + 1
                  /\ consultant'.chatHistory[Len(consultant'.chatHistory)].role = "user"
                  /\ consultant'.chatHistory[Len(consultant'.chatHistory)].text # ""
                  /\ Len(consultant'.requests) = 1]_vars
  /\ [][AssistantSettled =>
          /\ ~consultant'.isBusy
          /\ Len(consultant'.chatHistory) <= Len(consultant.chatHistory) + 1]_vars

\* A second transcript was accepted after the first request had failed, and
\* has its answer.
C29_Witness ==
  /\ consultant.heard = 3
  /\ ~consultant.isBusy
  /\ consultant.chatHistory =
       << [role |-> "user", text |-> "make it blue"],
          [role |-> "user", text |-> "a poster"],
          [role |-> "model", text |-> "Try neon blue."] >>

\* C30: while the consultant is active and listening the recognizer is
\* starting or running: a recognizer that ends without the user having
\* stopped it and without an error is started again; one that the user has
\* stopped is not.
C30_RecognizerKeptRunning ==
  /\ (consultant.isActive /\ consultant.status = "listening") =>
       consultant.rec.state \in {"starting", "running"}
  /\ ~consultant.recognitionRef => consultant.rec.state \notin {"starting", "running"}

\* The second part of C30 on its own: a recognizer the user has stopped is
\* not running and not started again.
StoppedStaysStopped ==
  ~consultant.recognitionRef => consultant.rec.state \notin {"starting", "running"}

====
